---- MODULE Spec2Model ----
(***************************************************************************)
(* Viewport, gesture routing and stroke recording of the two canvas        *)
(* components of tarkov-tactical-map:                                      *)
(*   "tool" = CollaborativeDrawingTool (src/unnamed/part_000)              *)
(*   "app"  = RealTimeMapApp           (src/unnamed/part_001)              *)
(* and the shape list of the component with an author-scoped undo:         *)
(*   "comm" = RealTimeMapCommunication (src/src/RealTimeMapCommunication.jsx) *)
(*                                                                         *)
(* Numbers.  The code computes with JavaScript numbers; the model computes *)
(* with exact rationals.  Every length (pan, world coordinate, clamp       *)
(* bound) is an integer count of 1/Unit pixel.  Unit is chosen so that     *)
(* every quotient the code forms (an integer or half-integer pixel count   *)
(* divided by a scale) is a whole number of units, so no operation rounds. *)
(* Quot fails (CHOOSE over an empty set) if a quotient were not exact.     *)
(* A scale is a fraction [n, d] in lowest terms.                           *)
(***************************************************************************)
EXTENDS Integers, Sequences, FiniteSets, TLC

VARIABLES
    variant,      \* "tool" | "app" | "comm": which component this behaviour is of
    canvas,       \* the <canvas> element: [mounted, w, h] (pixels)
    scale,        \* useState scale, a fraction [n, d]
    panX, panY,   \* useState panX/panY (tool), pan.x/pan.y (app), in units
    bg,           \* backgroundImage / bgImage: [loaded, w, h]
    bgLocked,     \* backgroundLocked / bgLocked
    pending,      \* uploads whose img.onload has not fired yet (closures)
    isPanning, isDrawing,
    panStart,     \* screen point [x, y], pixels
    startPoint,   \* startPoint (tool) / drawStart (app): world point, units
    activeTool,   \* activeTool (tool) / currentTool (app)
    menuOpen,     \* radial menu open (app only)
    actions,      \* drawActions (tool) / actions (app)
    now,          \* Date.now(), in ms since the component mounted
    fadeSetting,  \* the selected fade option
    lineWidth,    \* the selected line width
    userName,     \* useState userName
    userColor,    \* useState userColor (tool) / userColour (app)
    selectedEmoji, \* useState selectedEmoji
    username,     \* RealTimeMapCommunication: useState username
    myColor,      \* useState myColor
    selectedTool, \* useState selectedTool
    thickness,    \* useState thickness
    connectedUsers, \* useState connectedUsers: the entries [name, color]
    shapes,       \* useState shapes
    drawingRef,   \* drawingRef.current: [isDrawing, startX, startY, currentPath]
    nextTick,     \* the time the fade interval calls its callback next (ms)
    last,         \* history: the handler that ran last, its input, the state before
    drag,         \* history: the pan gesture in progress
    stroke        \* history: the drawing gesture in progress

vars == << variant, canvas, scale, panX, panY, bg, bgLocked, pending, isPanning,
           isDrawing, panStart, startPoint, activeTool, menuOpen, actions, now,
           fadeSetting, lineWidth, userName, userColor, selectedEmoji, username, myColor, selectedTool, thickness,
           connectedUsers, shapes, drawingRef, nextTick, last, drag, stroke >>

\* the clock and the drawing settings
env == << now, fadeSetting, lineWidth >>

\* what the next action records of its author
author == << userName, userColor, selectedEmoji >>

\* the state of RealTimeMapCommunication
comm == << username, myColor, selectedTool, thickness, connectedUsers, shapes,
          drawingRef >>

\* the state of the two canvas components, history included
canvasState == << canvas, scale, panX, panY, bg, bgLocked, pending, isPanning, isDrawing,
                 panStart, startPoint, activeTool, menuOpen, actions, env, author,
                 nextTick, drag, stroke >>

----------------------------------------------------------------------------
(* Bounds of the model *)

\* zoom steps above scale 1 that are followed one by one: 1.1^0 .. 1.1^MaxZoomUp
MaxZoomUp == 2
\* zoom steps below scale 4 that are followed one by one: 4/1.1^0 .. 4/1.1^MaxZoomDown
MaxZoomDown == 1
\* uploads in flight at a time
MaxPending == 1
\* length of the action list
MaxActions == 4
\* handler calls that change the state, per behaviour
MaxEvents == 4

----------------------------------------------------------------------------
(* Program constants *)

MinScale == 1          \* lower scale limit
MaxScale == 4          \* upper scale limit
FadeInterval == 2000   \* setInterval(..., 2000): period of the fade sweep (ms)
ZoomNum == 11          \* zoom step 1.1 = ZoomNum / ZoomDen
ZoomDen == 10
RectLeft == 0          \* canvas.getBoundingClientRect().left ("absolute top-0 left-0")
RectTop == 0

----------------------------------------------------------------------------
(* Exact arithmetic *)

RECURSIVE Pow(_, _)
Pow(b, e) == IF e = 0 THEN 1 ELSE b * Pow(b, e - 1)

RECURSIVE GCD(_, _)
GCD(a, b) == IF b = 0 THEN a ELSE GCD(b, a % b)

\* units per pixel: divisible by the numerator of every modelled scale (11^k and
\* 4 * 10^j), and by twice that for 11^k; canvas sizes are even, so the centre of
\* the canvas is a whole pixel
Unit == MaxScale * Pow(ZoomDen, MaxZoomDown) * Pow(ZoomNum, MaxZoomUp)

Num(px) == px * Unit

Frac(n, d) == LET g == GCD(n, d) IN [n |-> n \div g, d |-> d \div g]

Less(s, t) == s.n * t.d < t.n * s.d

\* a / s for a length a (units) and a scale s; exact
Quot(a, s) == CHOOSE q \in {(a \div s.n) * s.d} : a % s.n = 0

Min(a, b) == IF a < b THEN a ELSE b
Max(a, b) == IF a > b THEN a ELSE b

\* the scales the model follows: 1.1^k and 4 / 1.1^j
ModelScales ==
    {Frac(Pow(ZoomNum, k), Pow(ZoomDen, k)) : k \in 0..MaxZoomUp}
    \cup {Frac(MaxScale * Pow(ZoomDen, j), Pow(ZoomNum, j)) : j \in 0..MaxZoomDown}

One == Frac(MinScale, 1)
Four == Frac(MaxScale, 1)

----------------------------------------------------------------------------
(* Values *)

NoImage == [loaded |-> FALSE, w |-> 0, h |-> 0]
Image(w, h) == [loaded |-> TRUE, w |-> w, h |-> h]

Pt(x, y) == [x |-> x, y |-> y]

Tools == {"pen", "arrow", "circle", "emoji"}

\* an expireAt: Infinity, or a time in ms since the component mounted.  Date.now()
\* is far from 0, so a finite expireAt is never falsy; absent models undefined.
Never == [kind |-> "inf", t |-> 0]
At(t) == [kind |-> "at", t |-> t]
Absent == [kind |-> "absent", t |-> 0]

\* the values of the fade <select>
FadeValues == {"10s", "30s", "1m", "5m", "10m", "permanent"}

\* part_000 parseFadeTime: the duration in ms, Infinity by default
parseFadeTime(value) ==
    CASE value = "10s" -> At(10000)
      [] value = "30s" -> At(30000)
      [] value = "1m" -> At(60000)
      [] value = "5m" -> At(300000)
      [] value = "10m" -> At(600000)
      [] OTHER -> Never

\* part_001 FADE_OPTIONS and fadeToMs: find the option, ?? Infinity
FADE_OPTIONS ==
    << [value |-> "10s", ms |-> At(10000)], [value |-> "30s", ms |-> At(30000)],
       [value |-> "1m", ms |-> At(60000)], [value |-> "5m", ms |-> At(300000)],
       [value |-> "10m", ms |-> At(600000)], [value |-> "permanent", ms |-> Never] >>

fadeToMs(v) ==
    LET found == {i \in 1..Len(FADE_OPTIONS) : FADE_OPTIONS[i].value = v}
    IN  IF found = {} THEN Never
        ELSE FADE_OPTIONS[CHOOSE i \in found : \A j \in found : i <= j].ms

\* an expiry computed without the test for Infinity
expireAtT_NoInfinity == At(now + parseFadeTime(fadeSetting).t)

\* part_000: fadeMs === Infinity ? Infinity : Date.now() + fadeMs
expireAtT == LET fadeMs == parseFadeTime(fadeSetting)
             IN  IF fadeMs.kind = "inf" THEN Never ELSE At(now + fadeMs.t)

\* part_001: Date.now() + fadeToMs(fadeSetting)
expireAtA == LET ms == fadeToMs(fadeSetting)
             IN  IF ms.kind = "inf" THEN Never ELSE At(now + ms.t)

\* the author of every action appended here
Me == "me"

\* the emoji picker's options, by name: EMOJIS[0], EMOJIS[1]
EMOJIS == << "grinning face", "star-struck" >>

\* an action record with no emoji field
NoEmoji == "absent"

\* the colours of the palette: the first of DISTINCT_COLORS (tool), of
\* COLOUR_POOL (app)
Colours == IF variant = "app" THEN {"#ef4444", "#f59e0b"} ELSE {"#ff0000", "#00ff00"}

\* a DrawAction; id is history: the number of the handler call that appended it
NewAction(tool, start, end, expireAt) ==
    [id |-> last.n + 1, userId |-> Me, userName |-> userName, color |-> userColor,
     tool |-> tool, lineWidth |-> lineWidth, start |-> start, end |-> end,
     emoji |-> selectedEmoji, expireAt |-> expireAt]

----------------------------------------------------------------------------
(* Coordinate transform and pan clamp *)

\* part_000 screenToWorld: world = local / scale + pan
screenToWorldT(screenX, screenY, cv, sc, px, py) ==
    IF ~cv.mounted THEN Pt(Num(screenX), Num(screenY))
    ELSE LET localX == screenX - RectLeft
             localY == screenY - RectTop
         IN  Pt(Quot(Num(localX), sc) + px, Quot(Num(localY), sc) + py)

\* part_001 screenToWorld
screenToWorldA(sx, sy, cv, sc, px, py) ==
    IF ~cv.mounted THEN Pt(Num(sx), Num(sy))
    ELSE Pt(Quot(Num(sx - RectLeft), sc) + px, Quot(Num(sy - RectTop), sc) + py)

\* a * s for a length a and a scale s, exact
Prod(a, s) == CHOOSE q \in {(a \div s.d) * s.n} : a % s.d = 0

\* part_000 render effect: ctx.translate and ctx.scale are commented out, so an
\* action is painted at its world coordinates taken as canvas pixels
worldToScreenT(w, sc, px, py) == Pt(w.x, w.y)

\* part_001 paint effect: ctx.translate(-pan.x * scale, -pan.y * scale), then
\* ctx.scale(scale, scale): a world point lands on (world - pan) * scale
worldToScreenA(w, sc, px, py) == Pt(Prod(w.x - px, sc), Prod(w.y - py, sc))

\* dist < 1.5 * lw for dist = Math.sqrt(dx * dx + dy * dy), lengths in units:
\* 4 * (dx^2 + dy^2) < 9 * lw^2, on the lengths divided by their common divisor
Abs(a) == IF a < 0 THEN 0 - a ELSE a
ShorterThanPullback(dx, dy, lw) ==
    LET g == GCD(GCD(Abs(dx), Abs(dy)), lw)
        x == Abs(dx) \div g
        y == Abs(dy) \div g
        l == lw \div g
    IN  4 * (x * x + y * y) < 9 * l * l

\* part_000 drawArrow: what is painted.  shaft: a segment from start to the point
\* pulled back from end by pullback; head: the triangle of drawArrowHead at tip
drawArrowT(action) ==
    LET dx == action.end.x - action.start.x
        dy == action.end.y - action.start.y
        lw == Num(action.lineWidth)
        headLength == lw * 3
        lineEndDistance == (lw * 3) \div 2
    IN  IF ShorterThanPullback(dx, dy, lw)
        THEN [shaft |-> FALSE, from |-> action.end, pullback |-> 0,
              tip |-> action.end, headLength |-> headLength, halfAngle |-> "PI/6"]
        ELSE [shaft |-> TRUE, from |-> action.start, pullback |-> lineEndDistance,
              tip |-> action.end, headLength |-> headLength, halfAngle |-> "PI/6"]

\* part_001 drawArrow: the shaft is always stroked, to headLength before the end
drawArrowA(action) ==
    LET lw == Num(action.lineWidth)
        headLength == lw * 3
    IN  [shaft |-> TRUE, from |-> action.start, pullback |-> headLength,
         tip |-> action.end, headLength |-> headLength, halfAngle |-> "0.5"]

\* a clampPan whose upper bound ignores the scale: bgw - vw
clampPanT_NoScale(px, py, sc, image, cv) ==
    IF ~cv.mounted \/ ~image.loaded THEN Pt(px, py)
    ELSE Pt(Min(Max(0, px), Max(0, Num(image.w) - Num(cv.w))),
            Min(Max(0, py), Max(0, Num(image.h) - Num(cv.h))))

\* a clampPan that clamps at the lower bound only
clampPanT_LowerOnly(px, py, sc, image, cv) ==
    IF ~cv.mounted \/ ~image.loaded THEN Pt(px, py)
    ELSE Pt(Max(0, px), Max(0, py))

\* a clampPan that moves a pan outside the range one pixel towards it
clampPanT_OneStep(px, py, sc, image, cv) ==
    IF ~cv.mounted \/ ~image.loaded THEN Pt(px, py)
    ELSE LET maxX == Max(0, Num(image.w) - Quot(Num(cv.w), sc))
             maxY == Max(0, Num(image.h) - Quot(Num(cv.h), sc))
             step(p, hi) == IF p < 0 THEN Min(p + Num(1), 0)
                            ELSE IF p > hi THEN Max(p - Num(1), hi) ELSE p
         IN  Pt(step(px, maxX), step(py, maxY))

\* part_000 clampPan.  image is the backgroundImage of the closure that calls it.
clampPanT(px, py, sc, image, cv) ==
    IF ~cv.mounted THEN Pt(px, py)
    ELSE IF ~image.loaded THEN Pt(px, py)
    ELSE LET cw == Num(cv.w)
             ch == Num(cv.h)
             bgw == Num(image.w)
             bgh == Num(image.h)
             minPanX == 0
             minPanY == 0
             maxPanX0 == bgw - Quot(cw, sc)
             maxPanX == IF maxPanX0 < 0 THEN 0 ELSE maxPanX0
             maxPanY0 == bgh - Quot(ch, sc)
             maxPanY == IF maxPanY0 < 0 THEN 0 ELSE maxPanY0
             clampedX1 == IF px < minPanX THEN minPanX ELSE px
             clampedX == IF clampedX1 > maxPanX THEN maxPanX ELSE clampedX1
             clampedY1 == IF py < minPanY THEN minPanY ELSE py
             clampedY == IF clampedY1 > maxPanY THEN maxPanY ELSE clampedY1
         IN  Pt(clampedX, clampedY)

\* a clampPan whose upper bound is bgw - vw / s even when that is negative
clampPanA_NoFloor(px, py, sc, image, cv) ==
    IF ~cv.mounted \/ ~image.loaded THEN Pt(px, py)
    ELSE Pt(Min(Max(0, px), Num(image.w) - Quot(Num(cv.w), sc)),
            Min(Max(0, py), Num(image.h) - Quot(Num(cv.h), sc)))

\* a clampPan that keeps the lower bound 0 when there is no background
clampPanA_FloorAlways(px, py, sc, image, cv) ==
    IF ~cv.mounted \/ ~image.loaded THEN Pt(Max(0, px), Max(0, py))
    ELSE LET maxX == Max(0, Num(image.w) - Quot(Num(cv.w), sc))
             maxY == Max(0, Num(image.h) - Quot(Num(cv.h), sc))
         IN  Pt(Min(Max(0, px), maxX), Min(Max(0, py), maxY))

\* part_001 clampPan.  image is the bgImage of the closure that calls it.
clampPanA(px, py, sc, image, cv) ==
    IF ~cv.mounted \/ ~image.loaded THEN Pt(px, py)
    ELSE LET maxX == Max(0, Num(image.w) - Quot(Num(cv.w), sc))
             maxY == Max(0, Num(image.h) - Quot(Num(cv.h), sc))
         IN  Pt(Min(Max(0, px), maxX), Min(Max(0, py), maxY))

----------------------------------------------------------------------------
(* New scale of a zoom step *)

\* a zoom-in step without the upper limit
zoomInScaleT_NoCap(sc) == Frac(sc.n * ZoomNum, sc.d * ZoomDen)

\* part_000 handleWheel, zoomIn: newScale *= 1.1; if (newScale > 4) newScale = 4
zoomInScaleT(sc) ==
    LET newScale == Frac(sc.n * ZoomNum, sc.d * ZoomDen)
    IN  IF Less(Four, newScale) THEN Four ELSE newScale

\* part_000 handleWheel, zoomOut: newScale /= 1.1; if (newScale < 1) newScale = 1
zoomOutScaleT(sc) ==
    LET newScale == Frac(sc.n * ZoomDen, sc.d * ZoomNum)
    IN  IF Less(newScale, One) THEN One ELSE newScale

\* part_000 handleWheel: the branch on e.deltaY
wheelScaleT(sc, deltaY) == IF deltaY < 0 THEN zoomInScaleT(sc) ELSE zoomOutScaleT(sc)

\* the factors 1.1 and 1 / 1.1 of part_001
FactorIn == Frac(ZoomNum, ZoomDen)
FactorOut == Frac(ZoomDen, ZoomNum)

\* part_001 handleWheel, zoomByFactor: Math.min(Math.max(1, scale * factor), 4)
newScaleA(sc, factor) ==
    LET newScale == Frac(sc.n * factor.n, sc.d * factor.d)
        lower == IF Less(newScale, One) THEN One ELSE newScale
    IN  IF Less(Four, lower) THEN Four ELSE lower

----------------------------------------------------------------------------
(* Inputs *)

Canvases == {[mounted |-> TRUE, w |-> 4, h |-> 2]}

\* natural sizes of the images a user uploads
Images == {Image(6, 1), Image(3, 4), Image(6, 4)}

\* pointer positions on the canvas: the centre and the far corner
PointsOf(cv) == {Pt(cv.w \div 2, cv.h \div 2), Pt(cv.w, cv.h)}

MouseEvents ==
    {[clientX |-> p.x, clientY |-> p.y, ctrlKey |-> c, button |-> b] :
        p \in PointsOf(canvas), c \in BOOLEAN, b \in {0, 2}}

\* the handlers of part_000 and the move and up handlers of part_001 read
\* neither e.button nor, after the pointer-down, e.ctrlKey
LeftEvents == {e \in MouseEvents : e.button = 0}
MoveEvents == {e \in LeftEvents : ~e.ctrlKey}

WheelEvents ==
    {[clientX |-> p.x, clientY |-> p.y, deltaY |-> d] :
        p \in PointsOf(canvas), d \in {-100, 0, 100}}

\* what the file input delivers: nothing, a file that is no image, an image
Files == {[kind |-> "none", image |-> NoImage], [kind |-> "text", image |-> NoImage]}
         \cup {[kind |-> "image", image |-> i] : i \in Images}

----------------------------------------------------------------------------
(* Cap that keeps the scales finite *)

\* a zoom step is followed when its result is a modelled scale; a result outside
\* [MinScale, MaxScale] is never cut off
ScaleOK(sc) == sc \in ModelScales \/ Less(sc, One) \/ Less(Four, sc)

----------------------------------------------------------------------------
(* History variables *)

Pre == [scale |-> scale, panX |-> panX, panY |-> panY, panStart |-> panStart,
        isPanning |-> isPanning, isDrawing |-> isDrawing,
        nact |-> Len(actions), bg |-> bg, acts |-> actions, now |-> now,
        fadeSetting |-> fadeSetting, startPoint |-> startPoint,
        activeTool |-> activeTool, bgLocked |-> bgLocked, pending |-> pending,
        shapes |-> shapes, username |-> username, myColor |-> myColor,
        userColor |-> userColor]

\* the handler op ran on input (x, y, d) from the state Pre; n counts the
\* handler calls so far that changed the state
Ran(op, x, y, d) == [op |-> op, x |-> x, y |-> y, d |-> d, pre |-> Pre, n |-> last.n + 1]

\* cap on the length of a behaviour
Budget == last.n < MaxEvents

NoDrag == [on |-> FALSE, x |-> 0, y |-> 0, panX |-> 0, panY |-> 0, exact |-> FALSE]

\* a pan gesture starts at screen point (x, y)
DragFrom(x, y) == [on |-> TRUE, x |-> x, y |-> y, panX |-> panX, panY |-> panY,
                   exact |-> TRUE]

\* the viewport changed by something else than an unclamped pan move
DragBroken == IF drag.on THEN [drag EXCEPT !.exact = FALSE] ELSE drag

ShapeTools == {"arrow", "circle", "emoji"}

NoStroke == [on |-> FALSE, start |-> Pt(0, 0), steady |-> FALSE, pen |-> FALSE,
             appended |-> 0, moves |-> 0, from |-> Pt(0, 0), tip |-> Pt(0, 0)]

\* a pointer-down at world point w enters Drawing.  steady: a shape tool is
\* selected, and stays selected, no gesture was left in progress, and the
\* pointer-down is the only one of the gesture
StrokeFrom(w) == [on |-> TRUE, start |-> w, appended |-> 0, moves |-> 0,
                  from |-> w, tip |-> w,
                  steady |-> activeTool \in ShapeTools /\ ~isPanning /\ ~isDrawing,
                  pen |-> activeTool = "pen" /\ ~isPanning /\ ~isDrawing]

\* another pointer-down or a change of tool
StrokeBroken == [stroke EXCEPT !.steady = FALSE, !.pen = FALSE]

\* the gesture appended an action
StrokeAppended == [stroke EXCEPT !.appended = @ + 1]

\* a move of the gesture appended a pen segment that ends at world point w
StrokeMoved(w) == [stroke EXCEPT !.appended = @ + 1, !.moves = @ + 1,
                                 !.from = stroke.tip, !.tip = w]

\* drawingRef of RealTimeMapCommunication before any pointer-down
NoGesture == [isDrawing |-> FALSE, startX |-> 0, startY |-> 0, currentPath |-> << >>]

----------------------------------------------------------------------------
(* Initial state: the component after its first render *)

\* the useState initial values other than the viewport and the background
Fresh ==
    /\ bgLocked = FALSE
    /\ pending = {}
    /\ isPanning = FALSE
    /\ isDrawing = FALSE
    /\ panStart = Pt(0, 0)
    /\ startPoint = Pt(0, 0)
    /\ activeTool = "arrow"
    /\ menuOpen = FALSE
    /\ lineWidth = 10
    /\ userName = IF variant = "app" THEN "Guest" ELSE "GuestLion"
    /\ userColor = IF variant = "app" THEN "#ef4444" ELSE "#ff0000"
    /\ selectedEmoji = EMOJIS[1]
    /\ last = [op |-> "init", x |-> 0, y |-> 0, d |-> 0, n |-> 0,
               pre |-> [scale |-> One, panX |-> 0, panY |-> 0, panStart |-> Pt(0, 0),
                        isPanning |-> FALSE, isDrawing |-> FALSE, nact |-> 0,
                        bg |-> NoImage, acts |-> << >>, now |-> 0,
                        fadeSetting |-> "permanent", startPoint |-> Pt(0, 0),
                        activeTool |-> "arrow", bgLocked |-> FALSE, pending |-> {},
                        shapes |-> << >>, username |-> "User_1",
                        myColor |-> "#FF0000"]]
    /\ username = "User_1"
    /\ myColor = "#FF0000"
    /\ selectedTool = "freeform"
    /\ thickness = 2
    /\ connectedUsers = {[name |-> "User_1", color |-> "#FF0000"]}
    /\ nextTick = now + FadeInterval
    /\ shapes = << >>
    /\ drawingRef = NoGesture
    /\ drag = NoDrag
    /\ stroke = NoStroke

Init ==
    /\ variant \in {"tool", "app"}
    /\ canvas \in Canvases
    /\ scale = One
    /\ panX = 0
    /\ panY = 0
    /\ bg = NoImage
    /\ actions = << >>
    /\ now = 0
    /\ fadeSetting = "permanent"
    /\ Fresh

----------------------------------------------------------------------------
(* CollaborativeDrawingTool (part_000) *)

handleMouseDownT(e) ==
    /\ variant = "tool"
    /\ Budget
    /\ UNCHANGED << comm, nextTick, author >>
    /\ UNCHANGED env
    /\ canvas.mounted
    /\ IF e.ctrlKey
       THEN /\ isPanning' = TRUE
            /\ panStart' = Pt(e.clientX, e.clientY)
            /\ drag' = DragFrom(e.clientX, e.clientY)
            /\ stroke' = StrokeBroken
            /\ UNCHANGED << startPoint, isDrawing >>
       ELSE /\ startPoint' = screenToWorldT(e.clientX, e.clientY, canvas, scale, panX, panY)
            /\ isDrawing' = TRUE
            /\ stroke' = StrokeFrom(screenToWorldT(e.clientX, e.clientY, canvas, scale, panX, panY))
            /\ UNCHANGED << isPanning, panStart, drag >>
    /\ last' = Ran("down", e.clientX, e.clientY, 0)
    /\ UNCHANGED << variant, canvas, scale, panX, panY, bg, bgLocked, pending,
                    activeTool, menuOpen, actions >>

\* a move handler that tests the pen before the pan gesture
handleMouseMoveT_PenFirst(e) ==
    /\ variant = "tool"
    /\ Budget
    /\ UNCHANGED << comm, nextTick, author >>
    /\ UNCHANGED env
    /\ UNCHANGED stroke
    /\ isDrawing /\ activeTool = "pen"
    /\ LET w == screenToWorldT(e.clientX, e.clientY, canvas, scale, panX, panY)
       IN  /\ Len(actions) < MaxActions
           /\ actions' = Append(actions, [NewAction("pen", Pt(startPoint.x, startPoint.y), w, expireAtT) EXCEPT !.emoji = NoEmoji])
           /\ startPoint' = w
    /\ last' = Ran("draw", e.clientX, e.clientY, 0)
    /\ UNCHANGED << variant, canvas, scale, panX, panY, bg, bgLocked, pending, isPanning,
                    isDrawing, panStart, activeTool, menuOpen, drag >>

handleMouseMoveT(e) ==
    /\ variant = "tool"
    /\ Budget
    /\ UNCHANGED << comm, nextTick, author >>
    /\ UNCHANGED env
    /\ IF isPanning
       THEN LET dx == e.clientX - panStart.x
                dy == e.clientY - panStart.y
                nx == panX - Quot(Num(dx), scale)
                ny == panY - Quot(Num(dy), scale)
                clamped == clampPanT(nx, ny, scale, bg, canvas)
            IN  /\ panStart' = Pt(e.clientX, e.clientY)
                /\ panX' = clamped.x
                /\ panY' = clamped.y
                /\ drag' = [drag EXCEPT !.exact = @ /\ clamped = Pt(nx, ny)]
                /\ last' = Ran("pan", e.clientX, e.clientY, 0)
                /\ UNCHANGED << startPoint, actions, stroke >>
       ELSE IF ~isDrawing
       THEN UNCHANGED << panStart, panX, panY, drag, last, startPoint, actions, stroke >>
       ELSE IF activeTool = "pen"
       THEN LET w == screenToWorldT(e.clientX, e.clientY, canvas, scale, panX, panY)
                newAction == [NewAction("pen", Pt(startPoint.x, startPoint.y), w, expireAtT) EXCEPT !.emoji = NoEmoji]
            IN  /\ Len(actions) < MaxActions
                /\ actions' = Append(actions, newAction)
                /\ startPoint' = w
                /\ stroke' = StrokeMoved(w)
                /\ last' = Ran("draw", e.clientX, e.clientY, 0)
                /\ UNCHANGED << panStart, panX, panY, drag >>
       ELSE UNCHANGED << panStart, panX, panY, drag, last, startPoint, actions, stroke >>
    /\ UNCHANGED << variant, canvas, scale, bg, bgLocked, pending, isPanning, isDrawing,
                    activeTool, menuOpen >>

handleMouseUpT(e) ==
    /\ variant = "tool"
    /\ Budget
    /\ UNCHANGED << comm, nextTick, author >>
    /\ UNCHANGED env
    /\ IF isPanning
       THEN /\ isPanning' = FALSE
            /\ drag' = NoDrag
            /\ last' = Ran("up", e.clientX, e.clientY, 0)
            /\ UNCHANGED << isDrawing, actions, stroke >>
       ELSE IF ~isDrawing
       THEN UNCHANGED << isPanning, drag, last, isDrawing, actions, stroke >>
       ELSE LET w == screenToWorldT(e.clientX, e.clientY, canvas, scale, panX, panY)
                newAction == NewAction(activeTool, Pt(startPoint.x, startPoint.y), w, expireAtT)
            IN  /\ IF activeTool \in {"arrow", "circle", "emoji"}
                   THEN /\ Len(actions) < MaxActions
                        /\ actions' = Append(actions, newAction)
                        /\ stroke' = [StrokeAppended EXCEPT !.on = FALSE]
                   ELSE /\ UNCHANGED actions
                        /\ stroke' = [stroke EXCEPT !.on = FALSE]
                /\ isDrawing' = FALSE
                /\ last' = Ran("up", e.clientX, e.clientY, 0)
                /\ UNCHANGED << isPanning, drag >>
    /\ UNCHANGED << variant, canvas, scale, panX, panY, bg, bgLocked, pending,
                    panStart, startPoint, activeTool, menuOpen >>

\* a filter that keeps an action through the instant it expires
keepT_Inclusive(action, t) ==
    IF action.expireAt.kind = "absent" \/ action.expireAt.kind = "inf"
    THEN TRUE
    ELSE t <= action.expireAt.t

\* the filter of the fade interval, at time t
keepT(action, t) ==
    IF action.expireAt.kind = "absent" \/ action.expireAt.kind = "inf"
    THEN TRUE
    ELSE t < action.expireAt.t

\* the fade interval fires: prev.filter(...) with now = Date.now()
sweepT ==
    /\ variant = "tool"
    /\ UNCHANGED << comm, author >>
    /\ actions' = SelectSeq(actions, LAMBDA action : keepT(action, now))
    /\ UNCHANGED << variant, canvas, scale, panX, panY, bg, bgLocked, pending, isPanning,
                    isDrawing, panStart, startPoint, activeTool, menuOpen, drag, env, stroke >>

\* the callback as one of the counted events
fadeIntervalT ==
    /\ Budget
    /\ UNCHANGED nextTick
    /\ sweepT
    /\ last' = Ran("sweep", 0, 0, 0)

setFadeSettingT(value) ==
    /\ variant = "tool"
    /\ Budget
    /\ UNCHANGED << comm, nextTick, author >>
    /\ fadeSetting' = value
    /\ last' = Ran("fade", 0, 0, 0)
    /\ UNCHANGED << variant, canvas, scale, panX, panY, bg, bgLocked, pending, isPanning,
                    isDrawing, panStart, startPoint, activeTool, menuOpen, actions, drag,
                    now, lineWidth, stroke >>

\* a width setter that also restyles the actions already drawn
setLineWidthT_Restyle(w) ==
    /\ variant = "tool"
    /\ Budget
    /\ UNCHANGED << comm, nextTick, author >>
    /\ lineWidth' = w
    /\ actions' = [i \in 1..Len(actions) |-> [actions[i] EXCEPT !.lineWidth = w]]
    /\ last' = Ran("width", 0, 0, 0)
    /\ UNCHANGED << variant, canvas, scale, panX, panY, bg, bgLocked, pending, isPanning,
                    isDrawing, panStart, startPoint, activeTool, menuOpen, drag,
                    now, fadeSetting, stroke >>

setLineWidthT(w) ==
    /\ variant = "tool"
    /\ Budget
    /\ UNCHANGED << comm, nextTick, author >>
    /\ lineWidth' = w
    /\ last' = Ran("width", 0, 0, 0)
    /\ UNCHANGED << variant, canvas, scale, panX, panY, bg, bgLocked, pending, isPanning,
                    isDrawing, panStart, startPoint, activeTool, menuOpen, actions, drag,
                    now, fadeSetting, stroke >>

\* the name field, the same in both components
setUserName(value) ==
    /\ Budget
    /\ UNCHANGED << comm, nextTick >>
    /\ userName' = value
    /\ last' = Ran("userName", 0, 0, 0)
    /\ UNCHANGED << variant, canvas, scale, panX, panY, bg, bgLocked, pending, isPanning,
                    isDrawing, panStart, startPoint, activeTool, menuOpen, actions, env,
                    drag, stroke, userColor, selectedEmoji >>

\* the emoji picker is rendered only while the emoji tool is selected
setSelectedEmoji(value) ==
    /\ Budget
    /\ activeTool = "emoji"
    /\ UNCHANGED << comm, nextTick >>
    /\ selectedEmoji' = value
    /\ last' = Ran("emoji", 0, 0, 0)
    /\ UNCHANGED << variant, canvas, scale, panX, panY, bg, bgLocked, pending, isPanning,
                    isDrawing, panStart, startPoint, activeTool, menuOpen, actions, env,
                    drag, stroke, userName, userColor >>

\* a colour of the palette; with one user no colour is taken by someone else
setUserColor(color) ==
    /\ variant = "tool"
    /\ Budget
    /\ UNCHANGED << comm, nextTick >>
    /\ userColor' = color
    /\ last' = Ran("userColor", 0, 0, 0)
    /\ UNCHANGED << variant, canvas, scale, panX, panY, bg, bgLocked, pending, isPanning,
                    isDrawing, panStart, startPoint, activeTool, menuOpen, actions, env,
                    drag, stroke, userName, selectedEmoji >>

\* an undo that removes the oldest action
handleKeyDownT_First ==
    /\ variant = "tool"
    /\ Budget
    /\ UNCHANGED << comm, nextTick, author >>
    /\ UNCHANGED env
    /\ UNCHANGED stroke
    /\ actions' = SubSeq(actions, 2, Len(actions))
    /\ last' = Ran("undo", 0, 0, 0)
    /\ UNCHANGED << variant, canvas, scale, panX, panY, bg, bgLocked, pending, isPanning,
                    isDrawing, panStart, startPoint, activeTool, menuOpen, drag >>

\* Backspace, Ctrl+Z, Cmd+Z: prev.slice(0, -1)
handleKeyDownT ==
    /\ variant = "tool"
    /\ Budget
    /\ UNCHANGED << comm, nextTick, author >>
    /\ UNCHANGED env
    /\ UNCHANGED stroke
    /\ actions' = SubSeq(actions, 1, Len(actions) - 1)
    /\ last' = Ran("undo", 0, 0, 0)
    /\ UNCHANGED << variant, canvas, scale, panX, panY, bg, bgLocked, pending, isPanning,
                    isDrawing, panStart, startPoint, activeTool, menuOpen, drag >>

\* the closure img.onload keeps: the render's backgroundImage, panX, panY, scale
Closure(image) == [image |-> image, bg |-> bg, scale |-> scale, panX |-> panX, panY |-> panY]

handleFileUploadT(file) ==
    /\ variant = "tool"
    /\ Budget
    /\ UNCHANGED << comm, nextTick, author >>
    /\ UNCHANGED env
    /\ UNCHANGED stroke
    /\ IF bgLocked
       THEN /\ UNCHANGED pending
            /\ last' = Ran("upload", 0, 0, IF file.kind = "image" THEN 1 ELSE 0)
       ELSE IF file.kind # "image"
       THEN UNCHANGED << pending, last >>
       ELSE /\ Cardinality(pending) < MaxPending
            /\ pending' = pending \cup {Closure(file.image)}
            /\ last' = Ran("upload", 0, 0, 1)
    /\ UNCHANGED << variant, canvas, scale, panX, panY, bg, bgLocked, isPanning,
                    isDrawing, panStart, startPoint, activeTool, menuOpen, actions, drag >>

\* img.onload of an upload u: setBackgroundImage(img); clampPan(panX, panY, scale)
\* with the panX, panY, scale and backgroundImage of the render that started u
imgOnloadT(u) ==
    /\ variant = "tool"
    /\ Budget
    /\ UNCHANGED << comm, nextTick, author >>
    /\ UNCHANGED env
    /\ UNCHANGED stroke
    /\ u \in pending
    /\ LET clamped == clampPanT(u.panX, u.panY, u.scale, u.bg, canvas)
       IN  /\ bg' = u.image
           /\ panX' = clamped.x
           /\ panY' = clamped.y
    /\ pending' = pending \ {u}
    /\ drag' = DragBroken
    /\ last' = Ran("loaded", 0, 0, 0)
    /\ UNCHANGED << variant, canvas, scale, bgLocked, isPanning, isDrawing, panStart,
                    startPoint, activeTool, menuOpen, actions >>

handleWheelT(e) ==
    /\ variant = "tool"
    /\ Budget
    /\ UNCHANGED << comm, nextTick, author >>
    /\ UNCHANGED env
    /\ UNCHANGED stroke
    /\ canvas.mounted
    /\ LET mouseX == e.clientX - RectLeft
           mouseY == e.clientY - RectTop
           newScale == wheelScaleT(scale, e.deltaY)
           worldXBefore == Quot(Num(mouseX), scale) + panX
           worldYBefore == Quot(Num(mouseY), scale) + panY
       IN  /\ ScaleOK(newScale)
           /\ LET newPanX == worldXBefore - Quot(Num(mouseX), newScale)
                  newPanY == worldYBefore - Quot(Num(mouseY), newScale)
                  clamped == clampPanT(newPanX, newPanY, newScale, bg, canvas)
              IN  /\ scale' = newScale
                  /\ panX' = clamped.x
                  /\ panY' = clamped.y
    /\ drag' = DragBroken
    /\ last' = Ran("wheel", e.clientX, e.clientY, e.deltaY)
    /\ UNCHANGED << variant, canvas, bg, bgLocked, pending, isPanning, isDrawing,
                    panStart, startPoint, activeTool, menuOpen, actions >>

\* a zoom that commits the scale alone, as the branch for a missing canvas does
zoomAroundCenterT_ScaleOnly(newScale, op) ==
    /\ ScaleOK(newScale)
    /\ scale' = newScale
    /\ drag' = DragBroken
    /\ last' = Ran(op, canvas.w, canvas.h, 0)
    /\ UNCHANGED << variant, canvas, panX, panY, bg, bgLocked, pending, isPanning,
                    isDrawing, panStart, startPoint, activeTool, menuOpen, actions >>

zoomAroundCenterT(newScale, op) ==
    /\ ScaleOK(newScale)
    /\ IF ~canvas.mounted
       THEN /\ scale' = newScale
            /\ UNCHANGED << panX, panY >>
       ELSE LET centerX == Num(canvas.w) \div 2
                centerY == Num(canvas.h) \div 2
                worldXBefore == Quot(centerX, scale) + panX
                worldYBefore == Quot(centerY, scale) + panY
                newPanX == worldXBefore - Quot(centerX, newScale)
                newPanY == worldYBefore - Quot(centerY, newScale)
                clamped == clampPanT(newPanX, newPanY, newScale, bg, canvas)
            IN  /\ scale' = newScale
                /\ panX' = clamped.x
                /\ panY' = clamped.y
    /\ drag' = DragBroken
    /\ last' = Ran(op, canvas.w, canvas.h, 0)
    /\ UNCHANGED << variant, canvas, bg, bgLocked, pending, isPanning, isDrawing,
                    panStart, startPoint, activeTool, menuOpen, actions >>

zoomInT ==
    /\ variant = "tool"
    /\ Budget
    /\ UNCHANGED << comm, nextTick, author >>
    /\ UNCHANGED env
    /\ UNCHANGED stroke
    /\ zoomAroundCenterT(zoomInScaleT(scale), "zoomIn")

zoomOutT ==
    /\ variant = "tool"
    /\ Budget
    /\ UNCHANGED << comm, nextTick, author >>
    /\ UNCHANGED env
    /\ UNCHANGED stroke
    /\ zoomAroundCenterT(zoomOutScaleT(scale), "zoomOut")

\* the Reset Zoom button is rendered only when isZoomed
resetZoomT ==
    /\ variant = "tool"
    /\ Budget
    /\ UNCHANGED << comm, nextTick, author >>
    /\ UNCHANGED env
    /\ UNCHANGED stroke
    /\ scale # One \/ panX # 0 \/ panY # 0
    /\ scale' = One
    /\ panX' = 0
    /\ panY' = 0
    /\ drag' = DragBroken
    /\ last' = Ran("reset", 0, 0, 0)
    /\ UNCHANGED << variant, canvas, bg, bgLocked, pending, isPanning, isDrawing,
                    panStart, startPoint, activeTool, menuOpen, actions >>

setBackgroundLockedT(checked) ==
    /\ variant = "tool"
    /\ Budget
    /\ UNCHANGED << comm, nextTick, author >>
    /\ UNCHANGED env
    /\ UNCHANGED stroke
    /\ bgLocked' = checked
    /\ last' = Ran("lock", 0, 0, 0)
    /\ UNCHANGED << variant, canvas, scale, panX, panY, bg, pending, isPanning, isDrawing,
                    panStart, startPoint, activeTool, menuOpen, actions, drag >>

setActiveToolT(t) ==
    /\ variant = "tool"
    /\ Budget
    /\ UNCHANGED << comm, nextTick, author >>
    /\ UNCHANGED env
    /\ activeTool' = t
    /\ stroke' = StrokeBroken
    /\ last' = Ran("tool", 0, 0, 0)
    /\ UNCHANGED << variant, canvas, scale, panX, panY, bg, bgLocked, pending, isPanning,
                    isDrawing, panStart, startPoint, menuOpen, actions, drag >>

----------------------------------------------------------------------------
(* RealTimeMapApp (part_001) *)

\* an append onto the list of an earlier render: setActions([...actions, x])
\* called from a closure that was made before the previous callback ran
pushAction_Stale(tool, start, end) ==
    /\ Len(last.pre.acts) < MaxActions
    /\ actions' = Append(last.pre.acts, NewAction(tool, start, end, expireAtA))

\* an append that puts the new action in front
pushAction_Front(tool, start, end) ==
    /\ Len(actions) < MaxActions
    /\ actions' = << NewAction(tool, start, end, expireAtA) >> \o actions

pushAction(tool, start, end) ==
    /\ Len(actions) < MaxActions
    /\ actions' = Append(actions, NewAction(tool, start, end, expireAtA))

handleMouseDownA(e) ==
    /\ variant = "app"
    /\ Budget
    /\ UNCHANGED << comm, nextTick, author >>
    /\ UNCHANGED env
    /\ IF e.button = 2
       THEN /\ menuOpen' = TRUE
            /\ stroke' = StrokeBroken
            /\ UNCHANGED << isPanning, panStart, isDrawing, startPoint, drag >>
       ELSE IF menuOpen
       THEN /\ menuOpen' = FALSE
            /\ stroke' = StrokeBroken
            /\ UNCHANGED << isPanning, panStart, isDrawing, startPoint, drag >>
       ELSE IF e.ctrlKey
       THEN /\ isPanning' = TRUE
            /\ panStart' = Pt(e.clientX, e.clientY)
            /\ drag' = DragFrom(e.clientX, e.clientY)
            /\ stroke' = StrokeBroken
            /\ UNCHANGED << menuOpen, isDrawing, startPoint >>
       ELSE /\ isDrawing' = TRUE
            /\ startPoint' = screenToWorldA(e.clientX, e.clientY, canvas, scale, panX, panY)
            /\ stroke' = StrokeFrom(screenToWorldA(e.clientX, e.clientY, canvas, scale, panX, panY))
            /\ UNCHANGED << menuOpen, isPanning, panStart, drag >>
    /\ last' = Ran("down", e.clientX, e.clientY, 0)
    /\ UNCHANGED << variant, canvas, scale, panX, panY, bg, bgLocked, pending,
                    activeTool, actions >>

\* a pan move that keeps the anchor of the pointer-down
handleMouseMoveA_KeepAnchor(e) ==
    /\ variant = "app"
    /\ Budget
    /\ UNCHANGED << comm, nextTick, author >>
    /\ UNCHANGED env
    /\ UNCHANGED stroke
    /\ isPanning
    /\ LET dx == e.clientX - panStart.x
           dy == e.clientY - panStart.y
           nx == panX - Quot(Num(dx), scale)
           ny == panY - Quot(Num(dy), scale)
           newPan == clampPanA(nx, ny, scale, bg, canvas)
       IN  /\ panX' = newPan.x
           /\ panY' = newPan.y
           /\ drag' = [drag EXCEPT !.exact = @ /\ newPan = Pt(nx, ny)]
    /\ last' = Ran("pan", e.clientX, e.clientY, 0)
    /\ UNCHANGED << variant, canvas, scale, bg, bgLocked, pending, isPanning, isDrawing,
                    panStart, startPoint, activeTool, menuOpen, actions >>

\* a move handler that appends a segment whatever the tool
handleMouseMoveA_AllTools(e) ==
    /\ variant = "app"
    /\ Budget
    /\ UNCHANGED << comm, nextTick, author >>
    /\ UNCHANGED env
    /\ isDrawing
    /\ LET end == screenToWorldA(e.clientX, e.clientY, canvas, scale, panX, panY)
       IN  /\ Len(actions) < MaxActions
           /\ actions' = Append(actions, NewAction(activeTool, startPoint, end, expireAtA))
           /\ startPoint' = end
           /\ stroke' = StrokeMoved(end)
    /\ last' = Ran("draw", e.clientX, e.clientY, 0)
    /\ UNCHANGED << variant, canvas, scale, panX, panY, bg, bgLocked, pending, isPanning,
                    isDrawing, panStart, activeTool, menuOpen, drag >>

handleMouseMoveA(e) ==
    /\ variant = "app"
    /\ Budget
    /\ UNCHANGED << comm, nextTick, author >>
    /\ UNCHANGED env
    /\ IF isPanning
       THEN LET dx == e.clientX - panStart.x
                dy == e.clientY - panStart.y
                nx == panX - Quot(Num(dx), scale)
                ny == panY - Quot(Num(dy), scale)
                newPan == clampPanA(nx, ny, scale, bg, canvas)
            IN  /\ panX' = newPan.x
                /\ panY' = newPan.y
                /\ panStart' = Pt(e.clientX, e.clientY)
                /\ drag' = [drag EXCEPT !.exact = @ /\ newPan = Pt(nx, ny)]
                /\ last' = Ran("pan", e.clientX, e.clientY, 0)
                /\ UNCHANGED << startPoint, actions, stroke >>
       ELSE IF isDrawing /\ activeTool = "pen"
       THEN LET start == startPoint
                end == screenToWorldA(e.clientX, e.clientY, canvas, scale, panX, panY)
            IN  /\ pushAction("pen", start, end)
                /\ startPoint' = end
                /\ stroke' = StrokeMoved(end)
                /\ last' = Ran("draw", e.clientX, e.clientY, 0)
                /\ UNCHANGED << panStart, panX, panY, drag >>
       ELSE UNCHANGED << panStart, panX, panY, drag, last, startPoint, actions, stroke >>
    /\ UNCHANGED << variant, canvas, scale, bg, bgLocked, pending, isPanning, isDrawing,
                    activeTool, menuOpen >>

handleMouseUpA(e) ==
    /\ variant = "app"
    /\ Budget
    /\ UNCHANGED << comm, nextTick, author >>
    /\ UNCHANGED env
    /\ IF isPanning
       THEN /\ isPanning' = FALSE
            /\ drag' = NoDrag
            /\ last' = Ran("up", e.clientX, e.clientY, 0)
            /\ UNCHANGED << isDrawing, actions, stroke >>
       ELSE IF ~isDrawing
       THEN UNCHANGED << isPanning, drag, last, isDrawing, actions, stroke >>
       ELSE LET endPt == screenToWorldA(e.clientX, e.clientY, canvas, scale, panX, panY)
            IN  /\ isDrawing' = FALSE
                /\ pushAction(activeTool, startPoint, endPt)
                /\ stroke' = [StrokeAppended EXCEPT !.on = FALSE]
                /\ last' = Ran("up", e.clientX, e.clientY, 0)
                /\ UNCHANGED << isPanning, drag >>
    /\ UNCHANGED << variant, canvas, scale, panX, panY, bg, bgLocked, pending,
                    panStart, startPoint, activeTool, menuOpen >>

\* the filter of the fade-out timer, at time t
keepA(act, t) ==
    act.expireAt.kind = "absent" \/ act.expireAt.kind = "inf" \/ t < act.expireAt.t

\* the fade-out timer fires
sweepA ==
    /\ variant = "app"
    /\ UNCHANGED << comm, author >>
    /\ actions' = SelectSeq(actions, LAMBDA act : keepA(act, now))
    /\ UNCHANGED << variant, canvas, scale, panX, panY, bg, bgLocked, pending, isPanning,
                    isDrawing, panStart, startPoint, activeTool, menuOpen, drag, env, stroke >>

\* the callback as one of the counted events
fadeIntervalA ==
    /\ Budget
    /\ UNCHANGED nextTick
    /\ sweepA
    /\ last' = Ran("sweep", 0, 0, 0)

setFadeSettingA(value) ==
    /\ variant = "app"
    /\ Budget
    /\ UNCHANGED << comm, nextTick, author >>
    /\ fadeSetting' = value
    /\ last' = Ran("fade", 0, 0, 0)
    /\ UNCHANGED << variant, canvas, scale, panX, panY, bg, bgLocked, pending, isPanning,
                    isDrawing, panStart, startPoint, activeTool, menuOpen, actions, drag,
                    now, lineWidth, stroke >>

setLineWidthA(w) ==
    /\ variant = "app"
    /\ Budget
    /\ UNCHANGED << comm, nextTick, author >>
    /\ lineWidth' = w
    /\ last' = Ran("width", 0, 0, 0)
    /\ UNCHANGED << variant, canvas, scale, panX, panY, bg, bgLocked, pending, isPanning,
                    isDrawing, panStart, startPoint, activeTool, menuOpen, actions, drag,
                    now, fadeSetting, stroke >>

\* Backspace, Ctrl+Z, Cmd+Z: prev.slice(0, -1)
undoHandlerA ==
    /\ variant = "app"
    /\ Budget
    /\ UNCHANGED << comm, nextTick, author >>
    /\ UNCHANGED env
    /\ UNCHANGED stroke
    /\ actions' = SubSeq(actions, 1, Len(actions) - 1)
    /\ last' = Ran("undo", 0, 0, 0)
    /\ UNCHANGED << variant, canvas, scale, panX, panY, bg, bgLocked, pending, isPanning,
                    isDrawing, panStart, startPoint, activeTool, menuOpen, drag >>

\* an upload handler without the test of the lock
handleFileUploadA_NoLock(file) ==
    /\ variant = "app"
    /\ Budget
    /\ UNCHANGED << comm, nextTick, author >>
    /\ UNCHANGED env
    /\ UNCHANGED stroke
    /\ file.kind = "image"
    /\ Cardinality(pending) < MaxPending
    /\ pending' = pending \cup {Closure(file.image)}
    /\ last' = Ran("upload", 0, 0, 1)
    /\ UNCHANGED << variant, canvas, scale, panX, panY, bg, bgLocked, isPanning,
                    isDrawing, panStart, startPoint, activeTool, menuOpen, actions, drag >>

handleFileUploadA(file) ==
    /\ variant = "app"
    /\ Budget
    /\ UNCHANGED << comm, nextTick, author >>
    /\ UNCHANGED env
    /\ UNCHANGED stroke
    /\ IF bgLocked
       THEN /\ UNCHANGED pending
            /\ last' = Ran("upload", 0, 0, IF file.kind = "image" THEN 1 ELSE 0)
       ELSE IF file.kind # "image"
       THEN UNCHANGED << pending, last >>
       ELSE /\ Cardinality(pending) < MaxPending
            /\ pending' = pending \cup {Closure(file.image)}
            /\ last' = Ran("upload", 0, 0, 1)
    /\ UNCHANGED << variant, canvas, scale, panX, panY, bg, bgLocked, isPanning,
                    isDrawing, panStart, startPoint, activeTool, menuOpen, actions, drag >>

\* img.onload of an upload u: setBgImage(img); setPan(prev => clampPan(prev.x, prev.y, scale))
\* with the current pan, and the scale and bgImage of the render that started u
imgOnloadA(u) ==
    /\ variant = "app"
    /\ Budget
    /\ UNCHANGED << comm, nextTick, author >>
    /\ UNCHANGED env
    /\ UNCHANGED stroke
    /\ u \in pending
    /\ LET newPan == clampPanA(panX, panY, u.scale, u.bg, canvas)
       IN  /\ bg' = u.image
           /\ panX' = newPan.x
           /\ panY' = newPan.y
    /\ pending' = pending \ {u}
    /\ drag' = DragBroken
    /\ last' = Ran("loaded", 0, 0, 0)
    /\ UNCHANGED << variant, canvas, scale, bgLocked, isPanning, isDrawing, panStart,
                    startPoint, activeTool, menuOpen, actions >>

\* a wheel zoom anchored at the canvas centre instead of the pointer
handleWheelA_Center(e) ==
    /\ variant = "app"
    /\ Budget
    /\ UNCHANGED << comm, nextTick, author >>
    /\ UNCHANGED env
    /\ UNCHANGED stroke
    /\ canvas.mounted
    /\ LET localX == Num(canvas.w) \div 2
           localY == Num(canvas.h) \div 2
           newScale == newScaleA(scale, IF e.deltaY < 0 THEN FactorIn ELSE FactorOut)
           worldX == Quot(localX, scale) + panX
           worldY == Quot(localY, scale) + panY
       IN  /\ ScaleOK(newScale)
           /\ LET newPan == clampPanA(worldX - Quot(localX, newScale),
                                      worldY - Quot(localY, newScale),
                                      newScale, bg, canvas)
              IN  /\ scale' = newScale
                  /\ panX' = newPan.x
                  /\ panY' = newPan.y
    /\ drag' = DragBroken
    /\ last' = Ran("wheel", e.clientX, e.clientY, e.deltaY)
    /\ UNCHANGED << variant, canvas, bg, bgLocked, pending, isPanning, isDrawing,
                    panStart, startPoint, activeTool, menuOpen, actions >>

handleWheelA(e) ==
    /\ variant = "app"
    /\ Budget
    /\ UNCHANGED << comm, nextTick, author >>
    /\ UNCHANGED env
    /\ UNCHANGED stroke
    /\ canvas.mounted
    /\ LET localX == e.clientX - RectLeft
           localY == e.clientY - RectTop
           newScale == newScaleA(scale, IF e.deltaY < 0 THEN FactorIn ELSE FactorOut)
           worldX == Quot(Num(localX), scale) + panX
           worldY == Quot(Num(localY), scale) + panY
       IN  /\ ScaleOK(newScale)
           /\ LET newPan == clampPanA(worldX - Quot(Num(localX), newScale),
                                      worldY - Quot(Num(localY), newScale),
                                      newScale, bg, canvas)
              IN  /\ scale' = newScale
                  /\ panX' = newPan.x
                  /\ panY' = newPan.y
    /\ drag' = DragBroken
    /\ last' = Ran("wheel", e.clientX, e.clientY, e.deltaY)
    /\ UNCHANGED << variant, canvas, bg, bgLocked, pending, isPanning, isDrawing,
                    panStart, startPoint, activeTool, menuOpen, actions >>

\* the + and - buttons: zoomByFactor(1.1), zoomByFactor(1 / 1.1)
zoomByFactor(factor) ==
    /\ variant = "app"
    /\ Budget
    /\ UNCHANGED << comm, nextTick, author >>
    /\ UNCHANGED env
    /\ UNCHANGED stroke
    /\ LET newScale == newScaleA(scale, factor)
       IN  /\ ScaleOK(newScale)
           /\ IF ~canvas.mounted
              THEN /\ scale' = newScale
                   /\ UNCHANGED << panX, panY >>
              ELSE LET centerX == Num(canvas.w) \div 2
                       centerY == Num(canvas.h) \div 2
                       worldX == Quot(centerX, scale) + panX
                       worldY == Quot(centerY, scale) + panY
                       newPan == clampPanA(worldX - Quot(centerX, newScale),
                                           worldY - Quot(centerY, newScale),
                                           newScale, bg, canvas)
                   IN  /\ scale' = newScale
                       /\ panX' = newPan.x
                       /\ panY' = newPan.y
    /\ drag' = DragBroken
    /\ last' = Ran(IF factor = FactorIn THEN "zoomIn" ELSE "zoomOut", canvas.w, canvas.h, 0)
    /\ UNCHANGED << variant, canvas, bg, bgLocked, pending, isPanning, isDrawing,
                    panStart, startPoint, activeTool, menuOpen, actions >>

setBgLockedA(checked) ==
    /\ variant = "app"
    /\ Budget
    /\ UNCHANGED << comm, nextTick, author >>
    /\ UNCHANGED env
    /\ UNCHANGED stroke
    /\ bgLocked' = checked
    /\ last' = Ran("lock", 0, 0, 0)
    /\ UNCHANGED << variant, canvas, scale, panX, panY, bg, pending, isPanning, isDrawing,
                    panStart, startPoint, activeTool, menuOpen, actions, drag >>

setCurrentToolA(t) ==
    /\ variant = "app"
    /\ Budget
    /\ UNCHANGED << comm, nextTick, author >>
    /\ UNCHANGED env
    /\ activeTool' = t
    /\ stroke' = StrokeBroken
    /\ last' = Ran("tool", 0, 0, 0)
    /\ UNCHANGED << variant, canvas, scale, panX, panY, bg, bgLocked, pending, isPanning,
                    isDrawing, panStart, startPoint, menuOpen, actions, drag >>

\* the radial menu commits a slice (or its close button is clicked: kind "close")
setUserColour(clr) ==
    /\ variant = "app"
    /\ Budget
    /\ UNCHANGED << comm, nextTick >>
    /\ userColor' = clr
    /\ last' = Ran("userColor", 0, 0, 0)
    /\ UNCHANGED << variant, canvas, scale, panX, panY, bg, bgLocked, pending, isPanning,
                    isDrawing, panStart, startPoint, activeTool, menuOpen, actions, env,
                    drag, stroke, userName, selectedEmoji >>

commitSlice(kind, val) ==
    /\ variant = "app"
    /\ Budget
    /\ UNCHANGED << comm, nextTick, userName, selectedEmoji >>
    /\ UNCHANGED env
    /\ menuOpen
    /\ userColor' = IF kind = "colour" THEN val ELSE userColor
    /\ activeTool' = IF kind = "tool" THEN val ELSE activeTool
    /\ menuOpen' = FALSE
    /\ stroke' = IF kind = "tool" THEN StrokeBroken ELSE stroke
    /\ last' = Ran("menu", 0, 0, 0)
    /\ UNCHANGED << variant, canvas, scale, panX, panY, bg, bgLocked, pending, isPanning,
                    isDrawing, panStart, startPoint, actions, drag >>

----------------------------------------------------------------------------
(* The clock *)

\* time passes between two handler calls: d ms
elapse(d) ==
    /\ UNCHANGED << comm, author >>
    /\ now' = now + d
    /\ UNCHANGED << variant, canvas, scale, panX, panY, bg, bgLocked, pending, isPanning,
                    isDrawing, panStart, startPoint, activeTool, menuOpen, actions, drag,
                    fadeSetting, lineWidth, stroke >>

advance(d) ==
    /\ Budget
    /\ UNCHANGED nextTick
    /\ elapse(d)
    /\ last' = Ran("clock", 0, 0, d)

----------------------------------------------------------------------------
(* The two components.  A checkbox's change event carries the negation of  *)
(* the rendered value, a select's change event a value other than the      *)
(* rendered one.                                                           *)

NextT ==
    \/ \E e \in LeftEvents : handleMouseDownT(e)
    \/ \E e \in MoveEvents : handleMouseMoveT(e)
    \/ \E e \in MoveEvents : handleMouseUpT(e)
    \/ handleKeyDownT
    \/ \E f \in Files : handleFileUploadT(f)
    \/ \E u \in pending : imgOnloadT(u)
    \/ \E e \in WheelEvents : handleWheelT(e)
    \/ zoomInT
    \/ zoomOutT
    \/ resetZoomT
    \/ \E c \in {~bgLocked} : setBackgroundLockedT(c)
    \/ \E t \in Tools \ {activeTool} : setActiveToolT(t)

NextA ==
    \/ \E e \in MouseEvents : handleMouseDownA(e)
    \/ \E e \in MoveEvents : handleMouseMoveA(e)
    \/ \E e \in MoveEvents : handleMouseUpA(e)
    \/ undoHandlerA
    \/ \E f \in Files : handleFileUploadA(f)
    \/ \E u \in pending : imgOnloadA(u)
    \/ \E e \in WheelEvents : handleWheelA(e)
    \/ zoomByFactor(FactorIn)
    \/ zoomByFactor(FactorOut)
    \/ \E c \in {~bgLocked} : setBgLockedA(c)
    \/ \E t \in Tools \ {activeTool} : setCurrentToolA(t)
    \/ \E t \in Tools : commitSlice("tool", t)
    \/ \E clr \in Colours : commitSlice("colour", clr)
    \/ commitSlice("close", "")

Next == NextT \/ NextA

Spec == Init /\ [][Next]_vars

----------------------------------------------------------------------------
(* clampPan as a function: its inputs drawn from bounded sets *)

Two == Frac(2, 1)

\* the spec's worked case: an 800 x 600 background in a 400 x 300 viewport
ClampCanvas == [mounted |-> TRUE, w |-> 400, h |-> 300]
ClampImage == Image(800, 600)
ClampXs == {Num(k) : k \in {-1, 0, 1, 400, 401, 600, 601}}
ClampYs == {Num(k) : k \in {-1, 0, 1, 300, 301, 450, 451}}

\* pans from -1 px to 7 px in steps of half a pixel
SmallPans == {Num(k) \div 2 : k \in -2..14}

InitClamp ==
    /\ variant \in {"tool", "app"}
    /\ \/ /\ canvas \in Canvases
          /\ bg \in Images \cup {NoImage}
          /\ scale \in ModelScales
          /\ panX \in SmallPans
          /\ panY \in SmallPans
       \/ /\ canvas = ClampCanvas
          /\ bg = ClampImage
          /\ scale \in {One, Two}
          /\ panX \in ClampXs
          /\ panY \in ClampYs
    /\ actions = << >>
    /\ now = 0
    /\ fadeSetting = "permanent"
    /\ Fresh

\* part_000: clampPan(panX, panY, scale) and both setters
clampPanCallT ==
    /\ variant = "tool"
    /\ Budget
    /\ UNCHANGED << comm, nextTick, author >>
    /\ UNCHANGED env
    /\ UNCHANGED stroke
    /\ LET clamped == clampPanT(panX, panY, scale, bg, canvas)
       IN  /\ panX' = clamped.x
           /\ panY' = clamped.y
    /\ last' = Ran("clamp", 0, 0, 0)
    /\ UNCHANGED << variant, canvas, scale, bg, bgLocked, pending, isPanning, isDrawing,
                    panStart, startPoint, activeTool, menuOpen, actions, drag >>

\* part_001: setPan(clampPan(pan.x, pan.y, scale))
clampPanCallA ==
    /\ variant = "app"
    /\ Budget
    /\ UNCHANGED << comm, nextTick, author >>
    /\ UNCHANGED env
    /\ UNCHANGED stroke
    /\ LET newPan == clampPanA(panX, panY, scale, bg, canvas)
       IN  /\ panX' = newPan.x
           /\ panY' = newPan.y
    /\ last' = Ran("clamp", 0, 0, 0)
    /\ UNCHANGED << variant, canvas, scale, bg, bgLocked, pending, isPanning, isDrawing,
                    panStart, startPoint, activeTool, menuOpen, actions, drag >>

NextClamp == clampPanCallT \/ clampPanCallA

SpecClamp == InitClamp /\ [][NextClamp]_vars

----------------------------------------------------------------------------
(* The pointer handlers from any zoom level: a pan gesture on a viewport   *)
(* that an earlier wheel zoom anchored at the canvas origin left at pan 0  *)

\* the spec's worked case: a 2000 x 1600 background in a 1000 x 800 viewport
PanCanvas == [mounted |-> TRUE, w |-> 1000, h |-> 800]
PanImage == Image(2000, 1600)

\* the origin, (300, 200) of the worked case, and the centre
PanPointsOf(cv) == {Pt(0, 0), Pt((3 * cv.w) \div 10, cv.h \div 4), Pt(cv.w \div 2, cv.h \div 2)}

\* left-button events
PanMouseEvents ==
    {[clientX |-> p.x, clientY |-> p.y, ctrlKey |-> c, button |-> 0] :
        p \in PanPointsOf(canvas), c \in BOOLEAN}

PanMoveEvents == {e \in PanMouseEvents : ~e.ctrlKey}

InitPan ==
    /\ variant \in {"tool", "app"}
    /\ \/ /\ canvas \in Canvases
          /\ bg \in Images \cup {NoImage}
       \/ /\ canvas = PanCanvas
          /\ bg = PanImage
    /\ scale \in ModelScales
    /\ panX = 0
    /\ panY = 0
    /\ actions = << >>
    /\ now = 0
    /\ fadeSetting = "permanent"
    /\ Fresh

NextPan ==
    \/ \E e \in PanMouseEvents : handleMouseDownT(e)
    \/ \E e \in PanMoveEvents : handleMouseMoveT(e)
    \/ \E e \in PanMoveEvents : handleMouseUpT(e)
    \/ \E e \in PanMouseEvents : handleMouseDownA(e)
    \/ \E e \in PanMoveEvents : handleMouseMoveA(e)
    \/ \E e \in PanMoveEvents : handleMouseUpA(e)

SpecPan == InitPan /\ [][NextPan]_vars

----------------------------------------------------------------------------
(* The zoom handlers from any viewport a pan gesture leaves: any modelled  *)
(* scale, with or without a background, the pan a drag from pan 0 commits  *)

\* pixels of the drag on each axis; a drag to the left or up moves the pan forward
ZoomDrags == {Pt(0, 0), Pt(-1, -1), Pt(1, -300), Pt(-300, 1)}

\* the pan the move handler of the component commits for a drag d from pan 0
DraggedPan(d) ==
    LET nx == 0 - Quot(Num(d.x), scale)
        ny == 0 - Quot(Num(d.y), scale)
    IN  IF variant = "tool" THEN clampPanT(nx, ny, scale, bg, canvas)
        ELSE clampPanA(nx, ny, scale, bg, canvas)

InitZoom ==
    /\ variant \in {"tool", "app"}
    /\ \/ /\ canvas \in Canvases
          /\ bg \in Images \cup {NoImage}
       \/ /\ canvas = PanCanvas
          /\ bg = PanImage
    /\ scale \in ModelScales
    /\ \E d \in ZoomDrags : /\ panX = DraggedPan(d).x
                            /\ panY = DraggedPan(d).y
    /\ actions = << >>
    /\ now = 0
    /\ fadeSetting = "permanent"
    /\ Fresh

NextZoom ==
    \/ \E e \in WheelEvents : handleWheelT(e)
    \/ zoomInT
    \/ zoomOutT
    \/ resetZoomT
    \/ \E e \in WheelEvents : handleWheelA(e)
    \/ zoomByFactor(FactorIn)
    \/ zoomByFactor(FactorOut)

SpecZoom == InitZoom /\ [][NextZoom]_vars

----------------------------------------------------------------------------
(* The action list: the handlers that append to it, remove from it or      *)
(* change what the next append records, from lists drawn earlier           *)

\* actions drawn earlier in the session: an arrow with a 10 s fade drawn at time 0,
\* a permanent circle, a pen segment with a 30 s fade drawn at time 1
Drawn(tool, x, expireAt) ==
    [id |-> 0, userId |-> Me, userName |-> IF variant = "app" THEN "Guest" ELSE "GuestLion",
     color |-> IF variant = "app" THEN "#ef4444" ELSE "#ff0000",
     tool |-> tool, lineWidth |-> 10,
     start |-> Pt(Num(x), 0), end |-> Pt(Num(x), Num(1)),
     emoji |-> IF tool = "pen" /\ variant = "tool" THEN NoEmoji ELSE EMOJIS[1],
     expireAt |-> expireAt]
ActA == Drawn("arrow", 1, At(10000))
ActB == Drawn("circle", 2, Never)
ActC == Drawn("pen", 3, At(30001))

\* ids in creation order, before every id given in the behaviour
Numbered(list) == [i \in 1..Len(list) |-> [list[i] EXCEPT !.id = i - 1 - Len(list)]]

InitLists == {Numbered(l) : l \in {<< >>, <<ActA>>, <<ActA, ActB, ActC>>, <<ActB, ActA, ActC>>}}

\* the times the behaviours start at: with nothing expired yet
InitTimes == {1, 9999}

\* how far the clock moves in one step (ms)
ClockSteps == {1, 2}

\* the fade options the behaviours select
ModelFades == FadeValues

ModelWidths == {10, 4}

InitList ==
    /\ variant \in {"tool", "app"}
    /\ canvas \in Canvases
    /\ scale = One
    /\ panX = 0
    /\ panY = 0
    /\ bg = NoImage
    /\ actions \in InitLists
    /\ now \in InitTimes
    /\ fadeSetting = "permanent"
    /\ Fresh

NextList ==
    \/ \E e \in LeftEvents : handleMouseDownT(e)
    \/ \E e \in MoveEvents : handleMouseMoveT(e)
    \/ \E e \in MoveEvents : handleMouseUpT(e)
    \/ handleKeyDownT
    \/ fadeIntervalT
    \/ \E v \in ModelFades \ {fadeSetting} : setFadeSettingT(v)
    \/ \E w \in ModelWidths \ {lineWidth} : setLineWidthT(w)
    \/ \E t \in Tools \ {activeTool} : setActiveToolT(t)
    \/ zoomInT
    \/ resetZoomT
    \/ \E e \in LeftEvents : handleMouseDownA(e)
    \/ \E e \in MoveEvents : handleMouseMoveA(e)
    \/ \E e \in MoveEvents : handleMouseUpA(e)
    \/ undoHandlerA
    \/ fadeIntervalA
    \/ \E v \in ModelFades \ {fadeSetting} : setFadeSettingA(v)
    \/ \E w \in ModelWidths \ {lineWidth} : setLineWidthA(w)
    \/ \E t \in Tools \ {activeTool} : setCurrentToolA(t)
    \/ zoomByFactor(FactorIn)
    \/ \E d \in ClockSteps : advance(d)

SpecList == InitList /\ [][NextList]_vars

----------------------------------------------------------------------------
(* The fade timer over time: the clock advances and setInterval keeps      *)
(* calling the sweep for as long as the component is mounted               *)

\* the clock is followed up to this time (ms), past every expiry of the model
MaxClock == 35000

\* the user draws and changes settings in the first DrawUntil ms
DrawUntil == 5000

\* how far the clock moves in one step (ms)
FadeSteps == {1000}

\* the fade options selected while the user draws
FadeChoices == {"10s", "permanent"}

\* the pointer events of the drawn arrows: at the far corner, without Ctrl
FadeEvents == {e \in MoveEvents : e.clientX = canvas.w}

\* a timer callback; timers and the passing of time are not among the user's
\* events and leave their count alone
timerT ==
    /\ now >= nextTick
    /\ sweepT
    /\ nextTick' = nextTick + FadeInterval
    /\ last' = [Ran("sweep", 0, 0, 0) EXCEPT !.n = last.n]

timerA ==
    /\ now >= nextTick
    /\ sweepA
    /\ nextTick' = nextTick + FadeInterval
    /\ last' = [Ran("sweep", 0, 0, 0) EXCEPT !.n = last.n]

\* time passes, up to the time the callback is due
clock(d) ==
    /\ now < MaxClock
    /\ now + d <= nextTick
    /\ UNCHANGED nextTick
    /\ elapse(d)
    /\ last' = [Ran("clock", 0, 0, d) EXCEPT !.n = last.n]

InitFade ==
    /\ variant \in {"tool", "app"}
    /\ canvas \in Canvases
    /\ scale = One
    /\ panX = 0
    /\ panY = 0
    /\ bg = NoImage
    /\ actions \in InitLists
    /\ now = 0
    /\ fadeSetting \in FadeChoices
    /\ Fresh

NextFade ==
    \/ timerT
    \/ timerA
    \/ \E d \in FadeSteps : clock(d)
    \/ now <= DrawUntil /\ \E e \in FadeEvents : handleMouseDownT(e)
    \/ now <= DrawUntil /\ \E e \in FadeEvents : handleMouseUpT(e)
    \/ now <= DrawUntil /\ \E e \in FadeEvents : handleMouseDownA(e)
    \/ now <= DrawUntil /\ \E e \in FadeEvents : handleMouseUpA(e)
    \/ handleKeyDownT
    \/ undoHandlerA

\* setInterval calls the sweep again and again; time passes
SpecFade ==
    /\ InitFade
    /\ [][NextFade]_vars
    /\ WF_vars(timerT \/ timerA)
    /\ WF_vars(\E d \in FadeSteps : clock(d))

----------------------------------------------------------------------------
(* RealTimeMapCommunication (src/src/RealTimeMapCommunication.jsx): the    *)
(* shape list, its pointer handlers and the author-scoped undo             *)

\* positions of the thickness slider (1 .. 10)
Thicknesses == {2, 7}

\* the name the mount effect generates when the username is empty:
\* "User_" + Math.floor(Math.random() * 1000)
GeneratedNames == {"User_1", "User_632"}

\* what the user leaves in the username field: a name, or nothing
Usernames == {"", "Ana"}

\* the first colours of PRESET_COLORS
PRESET_COLORS == << "#FF0000", "#00FF00", "#0000FF" >>

CommTools == {"freeform", "circle", "arrow"}

\* pointer positions, relative to the map element
CommPoints == {Pt(1, 1), Pt(4, 5)}

\* the shape handlePointerUp builds for the selected tool; radius2 is the square
\* of the circle's radius
NewShape(x, y) ==
    LET dx == x - drawingRef.startX
        dy == y - drawingRef.startY
    IN  [id |-> last.n + 1, type |-> selectedTool, userColor |-> myColor,
         userName |-> username, thickness |-> thickness,
         points |-> IF selectedTool = "freeform" THEN drawingRef.currentPath ELSE << >>,
         start |-> Pt(drawingRef.startX, drawingRef.startY),
         end |-> IF selectedTool = "arrow" THEN Pt(x, y)
                 ELSE Pt(drawingRef.startX, drawingRef.startY),
         radius2 |-> IF selectedTool = "circle" THEN dx * dx + dy * dy ELSE 0]

\* the index undo removes: the last shape whose colour and name are the
\* current ones; 0 when there is none
LastFromMe(prev) ==
    LET mine == {i \in 1..Len(prev) :
                    prev[i].userColor = myColor /\ prev[i].userName = username}
    IN  IF mine = {} THEN 0 ELSE CHOOSE i \in mine : \A j \in mine : j <= i

broadcastShape(action, shapeData) ==
    IF action = "draw" THEN shapes' = Append(shapes, shapeData)
    ELSE LET i == LastFromMe(shapes)
         IN  shapes' = IF i = 0 THEN shapes
                       ELSE SubSeq(shapes, 1, i - 1) \o SubSeq(shapes, i + 1, Len(shapes))

handlePointerDown(p) ==
    /\ variant = "comm"
    /\ Budget
    /\ drawingRef' = [isDrawing |-> TRUE, startX |-> p.x, startY |-> p.y,
                      currentPath |-> << p >>]
    /\ last' = Ran("down", p.x, p.y, 0)
    /\ UNCHANGED << variant, canvasState, username, myColor, selectedTool, thickness,
                    connectedUsers, shapes >>

handlePointerMove(p) ==
    /\ variant = "comm"
    /\ Budget
    /\ IF ~drawingRef.isDrawing \/ selectedTool # "freeform"
       THEN UNCHANGED << drawingRef, last >>
       ELSE /\ drawingRef' = [drawingRef EXCEPT !.currentPath = Append(@, p)]
            /\ last' = Ran("move", p.x, p.y, 0)
    /\ UNCHANGED << variant, canvasState, username, myColor, selectedTool, thickness,
                    connectedUsers, shapes >>

handlePointerUp(p) ==
    /\ variant = "comm"
    /\ Budget
    /\ IF ~drawingRef.isDrawing
       THEN UNCHANGED << drawingRef, shapes, last >>
       ELSE /\ broadcastShape("draw", NewShape(p.x, p.y))
            /\ drawingRef' = [drawingRef EXCEPT !.isDrawing = FALSE, !.currentPath = << >>]
            /\ last' = Ran("up", p.x, p.y, 0)
    /\ UNCHANGED << variant, canvasState, username, myColor, selectedTool, thickness,
                    connectedUsers >>

\* the Undo Last button
handleUndo ==
    /\ variant = "comm"
    /\ Budget
    /\ broadcastShape("undo", << >>)
    /\ last' = Ran("undo", 0, 0, 0)
    /\ UNCHANGED << variant, canvasState, username, myColor, selectedTool, thickness,
                    connectedUsers, drawingRef >>

\* the username field
setUsername(name) ==
    /\ variant = "comm"
    /\ Budget
    /\ username' = name
    /\ last' = Ran("name", 0, 0, 0)
    /\ UNCHANGED << variant, canvasState, myColor, selectedTool, thickness,
                    connectedUsers, shapes, drawingRef >>

\* the entry the effect adds for the render it follows
userData == [name |-> IF username = "" THEN "UnnamedUser" ELSE username,
             color |-> myColor]

\* the effect on [username, myColor, availableColors], with the render of its
\* updates: it runs after a render that changed the name or the colour, a
\* separate callback from the handler that caused the render.  An empty name
\* is replaced by a generated one; the cleanup of the previous run removes its
\* entry of connectedUsers and this run adds its own (with no name and no
\* entry to replace, a run changes nothing)
webSocketEffect ==
    /\ variant = "comm"
    /\ Budget
    /\ username = "" \/ connectedUsers # {userData}
    /\ IF username = ""
       THEN username' \in GeneratedNames
       ELSE UNCHANGED username
    /\ connectedUsers' = {userData}
    /\ last' = Ran("effect", 0, 0, 0)
    /\ UNCHANGED << variant, canvasState, myColor, selectedTool, thickness, shapes,
                    drawingRef >>

\* the thickness slider
setThickness(v) ==
    /\ variant = "comm"
    /\ Budget
    /\ thickness' = v
    /\ last' = Ran("thickness", 0, 0, v)
    /\ UNCHANGED << variant, canvasState, username, myColor, selectedTool,
                    connectedUsers, shapes, drawingRef >>

\* a colour button: refused when the colour is in use
handleColorChange(newColor) ==
    /\ variant = "comm"
    /\ Budget
    /\ IF \E u \in connectedUsers : u.color = newColor
       THEN UNCHANGED << myColor, connectedUsers, last >>
       ELSE /\ myColor' = newColor
            /\ connectedUsers' = {IF u.name = username
                                  THEN [u EXCEPT !.color = newColor] ELSE u :
                                  u \in connectedUsers}
            /\ last' = Ran("color", 0, 0, 0)
    /\ UNCHANGED << variant, canvasState, username, selectedTool, thickness, shapes,
                    drawingRef >>

setSelectedTool(t) ==
    /\ variant = "comm"
    /\ Budget
    /\ selectedTool' = t
    /\ last' = Ran("tool", 0, 0, 0)
    /\ UNCHANGED << variant, canvasState, username, myColor, thickness,
                    connectedUsers, shapes, drawingRef >>

InitComm ==
    /\ variant = "comm"
    /\ canvas \in Canvases
    /\ scale = One
    /\ panX = 0
    /\ panY = 0
    /\ bg = NoImage
    /\ actions = << >>
    /\ now = 0
    /\ fadeSetting = "permanent"
    /\ Fresh

NextComm ==
    \/ \E p \in CommPoints : handlePointerDown(p)
    \/ \E p \in CommPoints : handlePointerMove(p)
    \/ \E p \in CommPoints : handlePointerUp(p)
    \/ handleUndo
    \/ \E name \in Usernames \ {username} : setUsername(name)
    \/ webSocketEffect
    \/ \E v \in Thicknesses \ {thickness} : setThickness(v)
    \/ \E i \in 1..Len(PRESET_COLORS) : handleColorChange(PRESET_COLORS[i])
    \/ \E t \in CommTools \ {selectedTool} : setSelectedTool(t)

SpecComm == InitComm /\ [][NextComm]_vars

----------------------------------------------------------------------------
(* Reference bounds, written from the specification's formulas *)

\* max(0, bgw - vw / s) for a background and a viewport extent in pixels
RefMax(bgpx, vpx, s) == Max(0, Num(bgpx) - Quot(Num(vpx), s))

\* min(max(p, 0), max(0, bgw - vw / s))
RefClamp(p, bgpx, vpx, s) == Min(Max(p, 0), RefMax(bgpx, vpx, s))

\* 0 <= p <= max(0, bgw - vw / s)
InRange(p, bgpx, vpx, s) == 0 <= p /\ p <= RefMax(bgpx, vpx, s)

ViewportOps == {"pan", "wheel", "zoomIn", "zoomOut"}

----------------------------------------------------------------------------
(* C1 *)

\* C1: the committed zoom scale is always within [1, 4], whatever sequence of
\* wheel events and zoom-button presses has run.
ScaleInRange == ~Less(scale, One) /\ ~Less(Four, scale)

\* a zoom-in pressed at scale 4 left the scale at 4
ScaleCappedAtMax ==
    /\ last.op = "zoomIn" \/ (last.op = "wheel" /\ last.d < 0)
    /\ last.pre.scale = Four
    /\ scale = Four

----------------------------------------------------------------------------
(* C2 *)

\* C2: with a background bgw x bgh and a mounted canvas vw x vh, clampPan returns
\* x = min(max(px, 0), max(0, bgw - vw / s)) and the same on y; for an 800 x 600
\* background in a 400 x 300 viewport its fixed points are x in [0, 400],
\* y in [0, 300] at scale 1 and x in [0, 600], y in [0, 450] at scale 2.
ClampPanFormula ==
    (last.op = "clamp" /\ bg.loaded /\ canvas.mounted) =>
        /\ panX = RefClamp(last.pre.panX, bg.w, canvas.w, scale)
        /\ panY = RefClamp(last.pre.panY, bg.h, canvas.h, scale)
        /\ (canvas = ClampCanvas /\ bg = ClampImage /\ scale = One) =>
              /\ (panX = last.pre.panX) <=> (0 <= last.pre.panX /\ last.pre.panX <= Num(400))
              /\ (panY = last.pre.panY) <=> (0 <= last.pre.panY /\ last.pre.panY <= Num(300))
        /\ (canvas = ClampCanvas /\ bg = ClampImage /\ scale = Two) =>
              /\ (panX = last.pre.panX) <=> (0 <= last.pre.panX /\ last.pre.panX <= Num(600))
              /\ (panY = last.pre.panY) <=> (0 <= last.pre.panY /\ last.pre.panY <= Num(450))

\* the worked case at scale 2: x = 601 is moved to 600, y = 450 is a fixed point
ClampedToSixHundred ==
    /\ last.op = "clamp" /\ canvas = ClampCanvas /\ bg = ClampImage /\ scale = Two
    /\ last.pre.panX = Num(601) /\ panX = Num(600)
    /\ last.pre.panY = Num(450) /\ panY = Num(450)

----------------------------------------------------------------------------
(* C3 *)

\* a length a (units) scaled by s reaches at least v: a * s >= v, which for
\* s > 0 is a >= v / s
ScaledAtLeast(a, s, v) == a >= Quot(v, s)

\* the claim on one axis: p the output pan, bgpx and vpx the extents in pixels
CoversOrPinned(p, bgpx, vpx, s) ==
    IF ScaledAtLeast(Num(bgpx), s, Num(vpx))
    THEN p >= 0 /\ ScaledAtLeast(Num(bgpx) - p, s, Num(vpx))
    ELSE p = 0

\* C3: for every clampPan output (x, y) at scale s with a background set, on each
\* axis where the scaled background is at least as large as the viewport the
\* background's screen rectangle covers the viewport (-x * s <= 0 and
\* (bgw - x) * s >= vw), and on each axis where it is smaller the pan is exactly 0.
ClampCoverage ==
    (last.op = "clamp" /\ bg.loaded /\ canvas.mounted) =>
        /\ CoversOrPinned(panX, bg.w, canvas.w, scale)
        /\ CoversOrPinned(panY, bg.h, canvas.h, scale)

\* a background narrower than the viewport and taller than it: x was pinned at 0
\* from a positive pan, y was pulled back to the far edge
PinnedAndCovered ==
    /\ last.op = "clamp" /\ bg.loaded
    /\ ~ScaledAtLeast(Num(bg.w), scale, Num(canvas.w))
    /\ last.pre.panX > 0 /\ panX = 0
    /\ ScaledAtLeast(Num(bg.h), scale, Num(canvas.h))
    /\ last.pre.panY > panY /\ panY > 0

----------------------------------------------------------------------------
(* C4 *)

\* C4: after every viewport transition that runs with a background set and the
\* canvas mounted (pan move, wheel zoom, zoom-in or zoom-out button) the committed
\* pan satisfies 0 <= panX <= max(0, bgw - vw / scale) and
\* 0 <= panY <= max(0, bgh - vh / scale) for the committed scale.
PanWithinBounds ==
    (last.op \in ViewportOps /\ bg.loaded /\ canvas.mounted) =>
        /\ InRange(panX, bg.w, canvas.w, scale)
        /\ InRange(panY, bg.h, canvas.h, scale)

\* a wheel zoom-out with a background set whose anchor-preserving pan lay outside
\* the bounds: the committed pan is on the bound
ZoomOutPulledBack ==
    /\ last.op = "wheel" /\ bg.loaded
    /\ Less(scale, last.pre.scale)
    /\ \/ last.pre.panX + Quot(Num(last.x), last.pre.scale) - Quot(Num(last.x), scale) < 0
       \/ last.pre.panY + Quot(Num(last.y), last.pre.scale) - Quot(Num(last.y), scale) < 0

----------------------------------------------------------------------------
(* C5 *)

\* C5: when a background upload completes, the committed pan lies within the clamp
\* bounds computed from the new image's dimensions and the current scale (a pan
\* that was negative or beyond the new image's extent is pulled back).
LoadedPanWithinNewBounds ==
    (last.op = "loaded" /\ canvas.mounted) =>
        /\ InRange(panX, bg.w, canvas.w, scale)
        /\ InRange(panY, bg.h, canvas.h, scale)

----------------------------------------------------------------------------
(* C6 *)

\* the pan that keeps the world point under the pointer, before clamping
WheelFreeX == last.pre.panX + Quot(Num(last.x - RectLeft), last.pre.scale)
                            - Quot(Num(last.x - RectLeft), scale)
WheelFreeY == last.pre.panY + Quot(Num(last.y - RectTop), last.pre.scale)
                            - Quot(Num(last.y - RectTop), scale)

\* C6: a wheel zoom anchored at canvas-local point a leaves the world point under
\* a unchanged (a / s + pan = a / s' + pan') on every axis where the unclamped new
\* pan already lies inside the clamp bounds; where it does not, the committed pan
\* is the point of the clamp range closest to the anchor-preserving pan.
WheelKeepsAnchor ==
    (last.op = "wheel" /\ canvas.mounted) =>
        /\ IF ~bg.loaded \/ InRange(WheelFreeX, bg.w, canvas.w, scale)
           THEN Quot(Num(last.x - RectLeft), scale) + panX
                = Quot(Num(last.x - RectLeft), last.pre.scale) + last.pre.panX
           ELSE panX = RefClamp(WheelFreeX, bg.w, canvas.w, scale)
        /\ IF ~bg.loaded \/ InRange(WheelFreeY, bg.h, canvas.h, scale)
           THEN Quot(Num(last.y - RectTop), scale) + panY
                = Quot(Num(last.y - RectTop), last.pre.scale) + last.pre.panY
           ELSE panY = RefClamp(WheelFreeY, bg.h, canvas.h, scale)

\* a wheel zoom with a background set that changed the scale and moved the pan:
\* one axis kept the anchor, the other was clamped
WheelOneAxisClamped ==
    /\ last.op = "wheel" /\ bg.loaded /\ scale # last.pre.scale
    /\ InRange(WheelFreeX, bg.w, canvas.w, scale) /\ panX # last.pre.panX
    /\ ~InRange(WheelFreeY, bg.h, canvas.h, scale)

----------------------------------------------------------------------------
(* C7 *)

\* C7: a pan move commits pan = clampPan(pan - (cur - anchor) / scale) and sets
\* anchor := cur (viewport 1000 x 800, background 2000 x 1600, scale 1, pan (0, 0):
\* a delta of (-300, -200) commits pan (300, 200)); over a drag with no clamping
\* and no scale change the net pan change is -(total pointer displacement) / scale.
PanMoveFormula ==
    /\ last.op = "pan" =>
          LET nx == last.pre.panX - Quot(Num(last.x - last.pre.panStart.x), scale)
              ny == last.pre.panY - Quot(Num(last.y - last.pre.panStart.y), scale)
          IN  /\ panX = IF bg.loaded THEN RefClamp(nx, bg.w, canvas.w, scale) ELSE nx
              /\ panY = IF bg.loaded THEN RefClamp(ny, bg.h, canvas.h, scale) ELSE ny
              /\ panStart = Pt(last.x, last.y)
    /\ (/\ last.op = "pan" /\ canvas = PanCanvas /\ bg = PanImage /\ scale = One
        /\ last.pre.panX = 0 /\ last.pre.panY = 0
        /\ last.x - last.pre.panStart.x = -300
        /\ last.y - last.pre.panStart.y = -200)
       => (panX = Num(300) /\ panY = Num(200))
    /\ (isPanning /\ drag.on /\ drag.exact) =>
          /\ panX = drag.panX - Quot(Num(panStart.x - drag.x), scale)
          /\ panY = drag.panY - Quot(Num(panStart.y - drag.y), scale)

\* the second move of a drag over the 2000 x 1600 background, neither move
\* clamped, the second with delta (-300, -200)
SecondMoveOfDrag ==
    /\ last.op = "pan" /\ canvas = PanCanvas /\ bg = PanImage
    /\ isPanning /\ drag.on /\ drag.exact
    /\ last.pre.panStart # Pt(drag.x, drag.y)
    /\ last.x - last.pre.panStart.x = -300
    /\ last.y - last.pre.panStart.y = -200
    /\ panX # drag.panX

----------------------------------------------------------------------------
(* C8 *)

\* C8: isPanning and isDrawing are never both set, for any sequence of pointer-down
\* events, with or without Ctrl, including a second pointer-down that arrives
\* before the pointer-up.
NeverPanningAndDrawing == ~(isPanning /\ isDrawing)

----------------------------------------------------------------------------
(* C9 *)

\* C9: while a pan gesture is active, no pointer-move and no pointer-up appends an
\* action to the action list, whatever tool is selected.
NoActionWhilePanning ==
    (last.op \in {"pan", "draw", "up"} /\ last.pre.isPanning) =>
        Len(actions) = last.pre.nact

\* a pointer-move with the pen selected while a pan gesture and a stroke are both
\* in progress: it panned
PenMoveWhilePanning ==
    /\ last.op = "pan" /\ last.pre.isPanning /\ last.pre.isDrawing
    /\ activeTool = "pen"

----------------------------------------------------------------------------
(* C10 *)

\* C10: between the pointer-down that enters Drawing and the matching pointer-up,
\* the viewport (scale, pan) is unchanged by every event the component can receive
\* in that interval: pointer moves, wheel events, zoom buttons.
ViewportFixedWhileDrawing ==
    (last.pre.isDrawing /\ last.op \in {"pan", "draw", "wheel", "zoomIn", "zoomOut"}) =>
        /\ scale = last.pre.scale
        /\ panX = last.pre.panX
        /\ panY = last.pre.panY

----------------------------------------------------------------------------
(* The action list *)

\* the action with this id is in the list
Present(list, id) == \E i \in 1..Len(list) : list[i].id = id

\* an action that a sweep at time t leaves in the list
Unexpired(a, t) == a.expireAt.kind \in {"inf", "absent"} \/ t < a.expireAt.t

\* C11: a sweep at time now keeps exactly the actions whose expireAt is infinite,
\* absent or later than now, in their order, and drops those with a finite
\* expireAt <= now: an action with a 10 s fade created at T is in the list after
\* a sweep at T + 9999 and not after a sweep at T + 10001
SweepKeepsUnexpired ==
    last.op = "sweep" =>
        LET old == last.pre.acts
            t == last.pre.now
            kept == {i \in 1..Len(old) : Unexpired(old[i], t)}
        IN  /\ Len(actions) = Cardinality(kept)
            /\ \A i \in kept : actions[Cardinality({j \in kept : j <= i})] = old[i]
            /\ \A i \in 1..Len(old) :
                   old[i].expireAt = At(10000) =>
                       /\ t <= 9999 => Present(actions, old[i].id)
                       /\ t >= 10001 => ~Present(actions, old[i].id)

\* a sweep at 10001 dropped the 10 s action created at 0 and kept the two others
SweepDroppedExpired ==
    /\ last.op = "sweep"
    /\ last.pre.now = 10001
    /\ Len(last.pre.acts) = 3
    /\ Len(actions) = 2
    /\ \E i \in 1..3 : last.pre.acts[i].expireAt = At(10000)

\* the expiry of an action appended at time t with the fade option v selected
RefExpire(t, v) ==
    CASE v = "10s" -> At(t + 10000)
      [] v = "30s" -> At(t + 30000)
      [] v = "1m" -> At(t + 60000)
      [] v = "5m" -> At(t + 300000)
      [] v = "10m" -> At(t + 600000)
      [] OTHER -> Never

\* C12: the expireAt of an appended action is its creation time plus the duration
\* of the fade option selected at that moment (infinite for permanent), and no
\* later step, a change of the fade selection included, alters the expireAt of an
\* action in the list
ExpireFixedAtAppend ==
    /\ (last.op \in {"draw", "up"} /\ Len(actions) = last.pre.nact + 1) =>
           actions[Len(actions)].expireAt = RefExpire(last.pre.now, last.pre.fadeSetting)
    /\ \A i \in 1..Len(last.pre.acts) : \A j \in 1..Len(actions) :
           actions[j].id = last.pre.acts[i].id =>
               actions[j].expireAt = last.pre.acts[i].expireAt
    /\ last.op = "fade" => actions = last.pre.acts

\* the fade selection changed from 10 s to 10 min after an action was drawn
FadeChangedAfterDraw ==
    /\ last.op = "fade"
    /\ last.pre.fadeSetting = "10s"
    /\ fadeSetting = "10m"
    /\ \E i \in 1..Len(actions) :
           /\ actions[i].id > 0
           /\ actions[i].expireAt.kind = "at"
           /\ actions[i].expireAt.t - 10000 \in InitTimes

\* C13: undo removes exactly the most recently appended action, the last of the
\* list, whoever its author is, and leaves the others in place: on [A, B, C] it
\* leaves [A, B]; on the empty list it leaves the empty list
UndoRemovesLast ==
    last.op = "undo" =>
        LET old == last.pre.acts
        IN  /\ Len(actions) = Max(0, Len(old) - 1)
            /\ \A i \in 1..Len(actions) : actions[i] = old[i]
            /\ old = Numbered(<<ActA, ActB, ActC>>) => actions = SubSeq(old, 1, 2)

\* an undo on [A, B, C]
UndoOfThree ==
    /\ last.op = "undo"
    /\ last.pre.acts = Numbered(<<ActA, ActB, ActC>>)
    /\ Len(actions) = 2

\* the world point of a screen point in the current viewport
WorldOf(x, y) ==
    IF variant = "tool" THEN screenToWorldT(x, y, canvas, scale, panX, panY)
    ELSE screenToWorldA(x, y, canvas, scale, panX, panY)

\* C14: with arrow, circle or emoji selected for the whole of a Drawing gesture
\* (one pointer-down, moves, one pointer-up), the gesture appends exactly one
\* action, at the pointer-up, from the world point of the pointer-down to the
\* world point of the pointer-up; the moves append nothing
ShapeGestureAppendsOne ==
    /\ (last.op = "up" /\ last.pre.isDrawing /\ stroke.steady) =>
           /\ Len(actions) = last.pre.nact + 1
           /\ SubSeq(actions, 1, last.pre.nact) = last.pre.acts
           /\ actions[Len(actions)].tool = activeTool
           /\ actions[Len(actions)].start = stroke.start
           /\ actions[Len(actions)].end = WorldOf(last.x, last.y)
           /\ stroke.appended = 1
    /\ (last.op = "draw") => ~stroke.steady
    /\ (stroke.on /\ stroke.steady) => stroke.appended = 0

\* a gesture with the arrow selected ended at another point than it began
ArrowGestureEnded ==
    /\ last.op = "up"
    /\ last.pre.isDrawing
    /\ stroke.steady
    /\ activeTool = "arrow"
    /\ actions[Len(actions)].end # actions[Len(actions)].start

\* s is t with some elements left out
RECURSIVE IsSubseq(_, _)
IsSubseq(s, t) ==
    IF s = << >> THEN TRUE
    ELSE IF t = << >> THEN FALSE
    ELSE IF Head(s) = Head(t) THEN IsSubseq(Tail(s), Tail(t))
    ELSE IsSubseq(s, Tail(t))

\* C15: the list is append-only except for undo and expiry: after every step it
\* is the old list with one action appended at the end, or a subsequence of the
\* old list, shorter only after an undo or a sweep; the order of the list is the
\* order of creation
AppendOnlyList ==
    /\ last.op # "init" =>
           LET old == last.pre.acts
           IN  \/ /\ Len(actions) = Len(old) + 1
                  /\ SubSeq(actions, 1, Len(old)) = old
                  /\ ~Present(old, actions[Len(actions)].id)
               \/ /\ actions = old
               \/ /\ last.op \in {"undo", "sweep"}
                  /\ IsSubseq(actions, old)
    /\ \A i, j \in 1..Len(actions) : i < j => actions[i].id < actions[j].id

\* an action was appended to a list that a sweep had removed the 10 s action from
AppendedAfterSweep ==
    /\ last.op = "up"
    /\ Len(actions) = 3
    /\ last.pre.nact = 2
    /\ actions[2].id < 0
    /\ actions[3].id > 0
    /\ \A i \in 1..3 : actions[i].expireAt # At(10000)

(* The operations that could touch a stored action: drawing with every     *)
(* tool, panning, zooming, resetting, loading a background, changing the   *)
(* tool, colour, width, fade, name or emoji, undoing, sweeping, the clock. *)

InitFields ==
    /\ variant \in {"tool", "app"}
    /\ canvas \in Canvases
    /\ scale = One
    /\ panX = 0
    /\ panY = 0
    /\ bg = NoImage
    /\ actions \in {Numbered(<< >>), Numbered(<<ActA, ActC>>)}
    /\ now = 9999
    /\ fadeSetting = "permanent"
    /\ Fresh

\* presses at the far corner, with and without Ctrl, and a right click there
\* that opens the pie menu; moves and releases at the centre; one image
NextFields ==
    \/ \E e \in {f \in LeftEvents : f.clientX = canvas.w} : handleMouseDownT(e)
    \/ \E e \in {f \in MoveEvents : f.clientX # canvas.w} : handleMouseMoveT(e)
    \/ \E e \in {f \in MoveEvents : f.clientX # canvas.w} : handleMouseUpT(e)
    \/ handleKeyDownT
    \/ fadeIntervalT
    \/ \E f \in {g \in Files : g.image = Image(6, 4)} : handleFileUploadT(f)
    \/ \E u \in pending : imgOnloadT(u)
    \/ zoomInT
    \/ zoomOutT
    \/ resetZoomT
    \/ \E v \in FadeChoices \ {fadeSetting} : setFadeSettingT(v)
    \/ \E w \in ModelWidths \ {lineWidth} : setLineWidthT(w)
    \/ \E t \in Tools \ {activeTool} : setActiveToolT(t)
    \/ \E v \in {"Ana", "Bo"} \ {userName} : setUserName(v)
    \/ \E c \in Colours : setUserColor(c)
    \/ \E v \in {EMOJIS[1], EMOJIS[2]} \ {selectedEmoji} : setSelectedEmoji(v)
    \/ \E e \in {f \in MouseEvents : f.clientX = canvas.w /\ (f.button = 0 \/ ~f.ctrlKey)} :
           handleMouseDownA(e)
    \/ \E e \in {f \in MoveEvents : f.clientX # canvas.w} : handleMouseMoveA(e)
    \/ \E e \in {f \in MoveEvents : f.clientX # canvas.w} : handleMouseUpA(e)
    \/ undoHandlerA
    \/ fadeIntervalA
    \/ \E f \in {g \in Files : g.image = Image(6, 4)} : handleFileUploadA(f)
    \/ \E u \in pending : imgOnloadA(u)
    \/ zoomByFactor(FactorIn)
    \/ zoomByFactor(FactorOut)
    \/ \E v \in FadeChoices \ {fadeSetting} : setFadeSettingA(v)
    \/ \E w \in ModelWidths \ {lineWidth} : setLineWidthA(w)
    \/ \E t \in Tools \ {activeTool} : setCurrentToolA(t)
    \/ \E c \in Colours \ {userColor} : setUserColour(c)
    \/ \E c \in Colours : commitSlice("colour", c)
    \/ \E d \in ClockSteps : advance(d)

SpecFields == InitFields /\ [][NextFields]_vars

\* C16: an action in the list keeps every field it was appended with (author,
\* name, colour, tool, width, start, end, emoji, expiry): whatever the step
\* (pan, zoom, reset, background load, change of tool, colour, width, fade,
\* name or emoji, undo, sweep), an action of the old list that is still in
\* the list is the same record
StoredActionsFixed ==
    \A i \in 1..Len(last.pre.acts) : \A j \in 1..Len(actions) :
        actions[j].id = last.pre.acts[i].id => actions[j] = last.pre.acts[i]

\* the colour changed after the name did, both after an action was drawn: the
\* action keeps the name and the colour it was drawn with
ColourAndNameChangedAfterDraw ==
    /\ last.op \in {"userColor", "menu"}
    /\ userColor # last.pre.userColor
    /\ \E i \in 1..Len(actions) :
           /\ actions[i].id > 0
           /\ actions[i].color = last.pre.userColor
           /\ actions[i].userName # userName
           /\ actions[i] = last.pre.acts[i]

----------------------------------------------------------------------------
(* The background lock *)

\* C17: an upload attempted while the lock is on changes nothing: the
\* background, the pan, the scale and the list are the same afterwards and no
\* load is left to complete
LockedUploadIgnored ==
    (last.op = "upload" /\ last.pre.bgLocked) =>
        /\ bg = last.pre.bg
        /\ panX = last.pre.panX /\ panY = last.pre.panY
        /\ scale = last.pre.scale
        /\ actions = last.pre.acts
        /\ pending = last.pre.pending
        /\ bgLocked

\* an image was chosen while the lock was on, on a loaded background
ImageChosenWhileLocked ==
    /\ last.op = "upload"
    /\ last.d = 1
    /\ last.pre.bgLocked
    /\ bg.loaded

\* C18: while the lock is on the background never changes: a step taken with the
\* lock on before and after it leaves the background as it was, also when the
\* step is the completion of an upload started before the lock
BackgroundFixedWhileLocked ==
    (last.pre.bgLocked /\ bgLocked) => bg = last.pre.bg

----------------------------------------------------------------------------
(* The renderer *)

\* where the renderer of the component paints a world point
ScreenOf(w) ==
    IF variant = "tool" THEN worldToScreenT(w, scale, panX, panY)
    ELSE worldToScreenA(w, scale, panX, panY)

\* C19: in each component, for the pan and scale of every state and every screen
\* point p of the canvas, the renderer paints the world point screenToWorld(p) at
\* p: the transform it applies is the inverse of screenToWorld
RenderInvertsScreenToWorld ==
    \A p \in PointsOf(canvas) :
        ScreenOf(WorldOf(p.x, p.y)) = Pt(Num(p.x - RectLeft), Num(p.y - RectTop))

\* what the renderer of the component paints for an arrow
Painted(action) == IF variant = "tool" THEN drawArrowT(action) ELSE drawArrowA(action)

\* C20: an arrow shorter than 1.5 x lineWidth (length 0 included) is painted
\* without a shaft, as the head alone with its apex at end; any other arrow is
\* painted with a shaft from start to the point 1.5 x lineWidth before end, and
\* the head of length 3 x lineWidth
ArrowShaftAndHead ==
    \A i \in 1..Len(actions) :
        actions[i].tool = "arrow" =>
            LET a == actions[i]
                lw == Num(a.lineWidth)
                short == ShorterThanPullback(a.end.x - a.start.x, a.end.y - a.start.y, lw)
                drawn == Painted(a)
            IN  /\ drawn.tip = a.end
                /\ drawn.headLength = 3 * lw
                /\ short => ~drawn.shaft
                /\ ~short => /\ drawn.shaft
                             /\ drawn.from = a.start
                             /\ 2 * drawn.pullback = 3 * lw

----------------------------------------------------------------------------
(* clampPan as a function, continued *)

\* clampPan of the component on the current scale, background and viewport
ClampOf(px, py) ==
    IF variant = "tool" THEN clampPanT(px, py, scale, bg, canvas)
    ELSE clampPanA(px, py, scale, bg, canvas)

\* C21: clampPan is idempotent: applied to its own result, with the same scale,
\* background (set or not) and viewport, it returns that result
ClampIdempotent ==
    last.op = "clamp" =>
        /\ ClampOf(panX, panY) = Pt(panX, panY)
        /\ last.n >= 2 => (panX = last.pre.panX /\ panY = last.pre.panY)

\* a second clamp at a scale above 1, of a pan that the first clamp left on the
\* upper bound of x and the lower bound of y
ClampedTwice ==
    /\ last.op = "clamp"
    /\ last.n = 2
    /\ bg.loaded
    /\ Less(One, scale)
    /\ panX = RefMax(bg.w, canvas.w, scale)
    /\ panY = 0

\* C22: with no background set, clampPan returns (px, py) unchanged, for every
\* px and py, negative ones included, and every scale
ClampWithoutBackground ==
    (last.op = "clamp" /\ ~bg.loaded) =>
        (panX = last.pre.panX /\ panY = last.pre.panY)

\* a clamp of a negative pan at a scale above 1 with no background
NegativePanNoBackground ==
    /\ last.op = "clamp"
    /\ ~bg.loaded
    /\ last.pre.panX < 0
    /\ last.pre.panY > Num(canvas.h)
    /\ Less(One, last.pre.scale)

----------------------------------------------------------------------------
(* Zoom *)

ZoomOps == {"wheel", "zoomIn", "zoomOut"}

\* the anchor of the last zoom on one axis, in units from the canvas edge: the
\* pointer for the wheel, the centre of the canvas for the buttons
AnchorOf(pointer, rectEdge, extent) ==
    IF last.op = "wheel" THEN Num(pointer - rectEdge) ELSE Num(extent) \div 2

\* the pan a zoom from (oldPan, oldScale) around anchor a has to commit
RefZoomPan(a, oldPan, oldScale, bgpx, vpx) ==
    LET want == Quot(a, oldScale) + oldPan - Quot(a, scale)
    IN  IF bg.loaded THEN RefClamp(want, bgpx, vpx, scale) ELSE want

\* C23: every zoom (wheel, zoom-in button, zoom-out button) commits scale and
\* pan in one step: the state after it has the new scale and the pan recomputed
\* for that scale around the anchor and passed through clampPan; the scale never
\* changes in a step that is not a zoom or a reset
ZoomCommitsScaleAndPan ==
    /\ last.op \in ZoomOps =>
           /\ panX = RefZoomPan(AnchorOf(last.x, RectLeft, canvas.w), last.pre.panX,
                                last.pre.scale, bg.w, canvas.w)
           /\ panY = RefZoomPan(AnchorOf(last.y, RectTop, canvas.h), last.pre.panY,
                                last.pre.scale, bg.h, canvas.h)
    /\ scale # last.pre.scale => last.op \in ZoomOps \cup {"reset"}

\* a press of the zoom-out button on a background changed the scale and the pan
ZoomOutButtonMovedPan ==
    /\ last.op = "zoomOut"
    /\ bg.loaded
    /\ scale # last.pre.scale
    /\ panX # last.pre.panX

----------------------------------------------------------------------------
(* Gestures *)

\* the move handler of the component
MoveOf(e) == IF variant = "tool" THEN handleMouseMoveT(e) ELSE handleMouseMoveA(e)

\* C24: the choice between panning and drawing is made at the pointer-down and
\* holds until the pointer-up: while a gesture that began with Ctrl is on, every
\* move pans, with Ctrl held or released; while a gesture that began without
\* Ctrl is on, no move pans, with Ctrl held or released
GestureKindFixed ==
    /\ (drag.on /\ Budget) =>
           \A e \in LeftEvents :
               ENABLED (MoveOf(e) /\ last'.op = "pan" /\ last'.n = last.n + 1 /\ isPanning')
    /\ (stroke.on /\ Budget) =>
           \A e \in LeftEvents :
               ~ENABLED (MoveOf(e) /\ (panX' # panX \/ panY' # panY \/ last'.op = "pan"))
    /\ last.op = "pan" => ~stroke.on

\* C25: with the pen selected for the whole of a Drawing gesture, every move
\* appends one pen action and nothing else does: after n moves the gesture has
\* appended n actions, the pointer-up appends none, the first action starts at
\* the world point of the pointer-down and each later one where the previous
\* one ends
PenGestureSegments ==
    /\ (last.op = "draw" /\ stroke.pen) =>
           LET new == actions[Len(actions)]
           IN  /\ actions = Append(last.pre.acts, new)
               /\ new.tool = "pen"
               /\ new.start = stroke.from
               /\ new.end = WorldOf(last.x, last.y)
               /\ stroke.tip = new.end
               /\ stroke.moves = 1 => new.start = stroke.start
    /\ (last.op = "up" /\ last.pre.isDrawing /\ ~last.pre.isPanning /\ stroke.pen) =>
           actions = last.pre.acts
    /\ stroke.pen => stroke.appended = stroke.moves

----------------------------------------------------------------------------
(* Interleaving of the callbacks that write the list *)

\* the last callback was one that appends: a pen move, or the pointer-up of a
\* Drawing gesture (in CollaborativeDrawingTool of a shape tool only)
Appending ==
    \/ last.op = "draw"
    \/ /\ last.op = "up"
       /\ last.pre.isDrawing
       /\ ~last.pre.isPanning
       /\ variant = "app" \/ last.pre.activeTool \in ShapeTools

\* C26: whatever the interleaving of sweeper ticks, undo key presses and pointer
\* callbacks, each callback's update is applied to the list the previous
\* callback left: an append adds its action at the end of that list, an undo
\* takes its last action away, a sweep filters it, every other callback leaves
\* it; so an action leaves the list only by being undone or by a sweep at or
\* after its expiry
SequentialListUpdates ==
    LET old == last.pre.acts
    IN  /\ Appending =>
               /\ Len(actions) = Len(old) + 1
               /\ SubSeq(actions, 1, Len(old)) = old
               /\ actions[Len(actions)].id = last.n
        /\ last.op = "undo" => actions = SubSeq(old, 1, Len(old) - 1)
        /\ last.op = "sweep" =>
               actions = SelectSeq(old, LAMBDA a : Unexpired(a, last.pre.now))
        /\ (~Appending /\ last.op \notin {"init", "undo", "sweep"}) => actions = old
        /\ \A i \in 1..Len(old) :
               ~Present(actions, old[i].id) =>
                   \/ last.op = "undo" /\ i = Len(old)
                   \/ last.op = "sweep" /\ ~Unexpired(old[i], last.pre.now)

\* a sweep dropped the expired 10 s action and kept the action that had been
\* appended just before the tick
SweepRightAfterAppend ==
    /\ last.op = "sweep"
    /\ last.pre.now = 10001
    /\ Len(actions) < Len(last.pre.acts)
    /\ Len(actions) > 0
    /\ actions[Len(actions)].id > 0

----------------------------------------------------------------------------
(* The author-scoped undo *)

\* C27: in RealTimeMapCommunication every shape of the list was drawn by the
\* local user, so after any draws and changes of username and colour an undo
\* removes the most recently drawn shape still in the list, the last one,
\* leaves the other shapes as they are and in order, and changes nothing only
\* when the list is empty
UndoRemovesOwnLatest ==
    (variant = "comm" /\ last.op = "undo") =>
        shapes = SubSeq(last.pre.shapes, 1, Len(last.pre.shapes) - 1)

----------------------------------------------------------------------------
(* Zoom at the edges *)

\* the last step was a zoom-in: the + button or a wheel turned up
ZoomedIn == last.op = "zoomIn" \/ (last.op = "wheel" /\ last.d < 0)

\* the pan that keeps the world point under anchor a, with no clamping
FreeZoomPan(a, oldPan, oldScale) == oldPan + Quot(a, oldScale) - Quot(a, scale)

\* C28: with a background set whose scaled size is at least the viewport on
\* both axes at the scale before the zoom, a pan within the clamp bounds of
\* that scale and the anchor inside the viewport, a zoom-in (wheel or button)
\* is not altered by clamping: the committed pan is
\* worldAnchor - anchor / newScale on both axes
ZoomInNeverClamped ==
    LET ax == AnchorOf(last.x, RectLeft, canvas.w)
        ay == AnchorOf(last.y, RectTop, canvas.h)
    IN  (/\ ZoomedIn
         /\ bg.loaded
         /\ ScaledAtLeast(Num(bg.w), last.pre.scale, Num(canvas.w))
         /\ ScaledAtLeast(Num(bg.h), last.pre.scale, Num(canvas.h))
         /\ InRange(last.pre.panX, bg.w, canvas.w, last.pre.scale)
         /\ InRange(last.pre.panY, bg.h, canvas.h, last.pre.scale)
         /\ 0 <= ax /\ ax <= Num(canvas.w)
         /\ 0 <= ay /\ ay <= Num(canvas.h))
        => /\ panX = FreeZoomPan(ax, last.pre.panX, last.pre.scale)
           /\ panY = FreeZoomPan(ay, last.pre.panY, last.pre.scale)

\* a wheel zoom-in at the far corner of the viewport from the largest pan of
\* the old scale on x: the committed pan is the largest pan of the new scale
ZoomInAtFarEdge ==
    /\ ZoomedIn
    /\ bg.loaded
    /\ scale # last.pre.scale
    /\ ScaledAtLeast(Num(bg.w), last.pre.scale, Num(canvas.w))
    /\ ScaledAtLeast(Num(bg.h), last.pre.scale, Num(canvas.h))
    /\ InRange(last.pre.panY, bg.h, canvas.h, last.pre.scale)
    /\ last.x - RectLeft = canvas.w
    /\ last.pre.panX = RefMax(bg.w, canvas.w, last.pre.scale)
    /\ last.pre.panX > 0
    /\ panX = RefMax(bg.w, canvas.w, scale)

\* the last step was a zoom-out: the - button or a wheel not turned up
ZoomedOut == last.op = "zoomOut" \/ (last.op = "wheel" /\ last.d >= 0)

\* C29: a zoom-in (wheel or button) at scale 4 and a zoom-out at scale 1 leave
\* scale, panX and panY as they were, provided no background is set or the pan
\* before the zoom is within the clamp bounds of that scale
ZoomAtBoundIsNoOp ==
    (/\ \/ ZoomedIn /\ last.pre.scale = Four
        \/ ZoomedOut /\ last.pre.scale = One
     /\ \/ ~bg.loaded
        \/ /\ InRange(last.pre.panX, bg.w, canvas.w, last.pre.scale)
           /\ InRange(last.pre.panY, bg.h, canvas.h, last.pre.scale))
    => /\ scale = last.pre.scale
       /\ panX = last.pre.panX
       /\ panY = last.pre.panY

\* a wheel turned up at scale 4 over a background, away from the centre, with
\* the pan off the origin
WheelInAtScaleFour ==
    /\ last.op = "wheel" /\ last.d < 0
    /\ last.pre.scale = Four
    /\ bg.loaded
    /\ last.x - RectLeft = canvas.w
    /\ last.pre.panX > 0 /\ last.pre.panY > 0
    /\ panX = last.pre.panX

----------------------------------------------------------------------------
(* Fading over time *)

\* ids of the actions drawn before and during a behaviour
FadeIds == (0 - MaxActions)..MaxEvents

\* the action with this id is in the list and has a finite expireAt
FiniteIn(id) ==
    \E i \in 1..Len(actions) : actions[i].id = id /\ actions[i].expireAt.kind = "at"

\* C30: while the clock advances and the sweeper keeps ticking, every action
\* with a finite expireAt is eventually out of the list (removed by a sweep,
\* unless an undo removed it first); no action is in the list after a sweep at a
\* time >= its expireAt; a sweep removes no action whose expireAt is later than
\* its time, and none with an infinite expireAt
ExpiredActionsSwept ==
    /\ \A id \in FadeIds : FiniteIn(id) ~> ~Present(actions, id)
    /\ [](last.op = "sweep" =>
            /\ \A i \in 1..Len(actions) :
                   actions[i].expireAt.kind = "at" => last.pre.now < actions[i].expireAt.t
            /\ \A i \in 1..Len(last.pre.acts) :
                   \/ /\ last.pre.acts[i].expireAt.kind = "at"
                      /\ last.pre.acts[i].expireAt.t <= last.pre.now
                   \/ Present(actions, last.pre.acts[i].id))

\* a sweep at the very time an arrow drawn with the 10 s fade expires removed
\* it and left the permanent circle drawn earlier
SweptAtExpiry ==
    /\ last.op = "sweep"
    /\ \E i \in 1..Len(last.pre.acts) :
           /\ last.pre.acts[i].expireAt = At(last.pre.now)
           /\ last.pre.acts[i].id > 0
           /\ ~Present(actions, last.pre.acts[i].id)
    /\ \E i \in 1..Len(actions) : actions[i].expireAt = Never

====
